---- MODULE Spec2Model ----
(***************************************************************************)
(* Task lifecycle and persistence of the todo application:                 *)
(*   Task / TaskModel            (models/Task.ts)                          *)
(*   LocalStorageTaskRepository  (repositories/LocalStorageTaskRepository) *)
(*   TaskService                 (services/TaskService.ts)                 *)
(*                                                                         *)
(* Strings are sequences of one-character strings.  A task id is the       *)
(* sequence <<"task", timestamp, suffix>> (the text `task-<ms>-<random>`), *)
(* the empty id is <<>>.  A Date is [valid, ms]: its time value, or the    *)
(* Invalid Date.  The value under the storage key is kept as the JSON      *)
(* text's parse tree, every JSON value being a record [t, v].              *)
(***************************************************************************)
EXTENDS Integers, Sequences, FiniteSets, TLC

VARIABLES
    store,   \* localStorage: the value under STORAGE_KEY
    now,     \* the wall clock, milliseconds since the epoch
    last,    \* the call that has just settled, NoCall while the caller is idle
    pending, \* the repository calls that wait at their await, by caller
    ui       \* the page: the UIController's fields and the elements it shows

vars == <<store, now, last, pending, ui>>

----------------------------------------------------------------------------
(* Bounds                                                                  *)

\* largest number of array elements a write may leave in the store
MaxTasks == 2

\* number of distinct random suffixes the id generator can draw
MaxSuffix == 1

\* number of times the clock advances
MaxTicks == 1

\* number of calls that may be in flight together
MaxCallers == 2

\* number of error messages the page may come to show
MaxErrors == 3

\* the errors shown after which the list's handlers are not followed further
MaxViewErrors == 1

\* the clock's first reading and its advance per tick, in milliseconds
ClockStart == -1

TickMs == 43200500

----------------------------------------------------------------------------
(* Strings                                                                 *)

Str(n, c) == [i \in 1..n |-> c]

IsWhitespace(c) == c \in {" ", "\t", "\n"}

\* the first position from i upward that holds no white space
RECURSIVE SkipForward(_, _)
SkipForward(s, i) ==
    IF i <= Len(s) /\ IsWhitespace(s[i]) THEN SkipForward(s, i + 1) ELSE i

\* the last position from i downward that holds no white space
RECURSIVE SkipBackward(_, _)
SkipBackward(s, i) ==
    IF i >= 1 /\ IsWhitespace(s[i]) THEN SkipBackward(s, i - 1) ELSE i

\* String.prototype.trim
Trim(s) == SubSeq(s, SkipForward(s, 1), SkipBackward(s, Len(s)))

----------------------------------------------------------------------------
(* Dates: Date.prototype.toISOString and new Date(isoString)               *)

MsPerDay == 86400000

InvalidDate == [valid |-> FALSE, ms |-> 0]

DateOf(ms) == [valid |-> TRUE, ms |-> ms]

DigitChar == <<"0", "1", "2", "3", "4", "5", "6", "7", "8", "9">>

Digits == {DigitChar[d] : d \in 1..10}

DigitVal == [c \in Digits |-> (CHOOSE d \in 1..10 : DigitChar[d] = c) - 1]

\* the last decimal digit of n
Digit(n) == DigitChar[(n % 10) + 1]

\* the number the digits of s at positions from..to denote
Num(s, from, to) ==
    LET RECURSIVE val(_)
        val(k) == IF k < from THEN 0 ELSE 10 * val(k - 1) + DigitVal[s[k]]
    IN  val(to)

\* year, month, day of the day number z (days since 1970-01-01)
CivilFromDays(z) ==
    LET zz  == z + 719468
        era == zz \div 146097
        doe == zz - era * 146097
        yoe == (doe - doe \div 1460 + doe \div 36524 - doe \div 146096) \div 365
        doy == doe - (365 * yoe + yoe \div 4 - yoe \div 100)
        mp  == (5 * doy + 2) \div 153
        d   == doy - (153 * mp + 2) \div 5 + 1
        m   == IF mp < 10 THEN mp + 3 ELSE mp - 9
        y   == yoe + era * 400 + (IF m <= 2 THEN 1 ELSE 0)
    IN  [year |-> y, month |-> m, day |-> d]

\* day number of year-month-day
DaysFromCivil(y, m, d) ==
    LET yy  == IF m <= 2 THEN y - 1 ELSE y
        era == yy \div 400
        yoe == yy - era * 400
        doy == (153 * (IF m > 2 THEN m - 3 ELSE m + 9) + 2) \div 5 + d - 1
        doe == yoe * 365 + yoe \div 4 - yoe \div 100 + doy
    IN  era * 146097 + doe - 719468

IsLeap(y) == (y % 4 = 0 /\ y % 100 # 0) \/ y % 400 = 0

DaysInMonth(y, m) ==
    IF m = 2 THEN (IF IsLeap(y) THEN 29 ELSE 28)
    ELSE IF m \in {4, 6, 9, 11} THEN 30 ELSE 31

\* toISOString of a valid date: YYYY-MM-DDTHH:mm:ss.sssZ
ToISOString(date) ==
    LET tod == date.ms % MsPerDay
        iso(c, h, mi, sc, ms) ==
            <<Digit(c.year \div 1000), Digit(c.year \div 100), Digit(c.year \div 10),
              Digit(c.year), "-", Digit(c.month \div 10), Digit(c.month), "-",
              Digit(c.day \div 10), Digit(c.day), "T", Digit(h \div 10), Digit(h),
              ":", Digit(mi \div 10), Digit(mi), ":", Digit(sc \div 10), Digit(sc),
              ".", Digit(ms \div 100), Digit(ms \div 10), Digit(ms), "Z">>
    IN  iso(CivilFromDays(date.ms \div MsPerDay), tod \div 3600000,
            (tod \div 60000) % 60, (tod \div 1000) % 60, tod % 1000)

DigitPositions == {1, 2, 3, 4, 6, 7, 9, 10, 12, 13, 15, 16, 18, 19, 21, 22, 23}

\* the shape YYYY-MM-DDTHH:mm:ss.sssZ
IsISOFormat(s) ==
    /\ Len(s) = 24
    /\ s[5] = "-" /\ s[8] = "-" /\ s[11] = "T" /\ s[14] = ":" /\ s[17] = ":"
    /\ s[20] = "." /\ s[24] = "Z"
    /\ \A i \in DigitPositions : s[i] \in Digits

\* new Date(string): the instant an ISO timestamp denotes, else Invalid Date
ParseDate(s) ==
    LET instant(y, mo, d, h, mi, sc, ms) ==
            IF \/ mo < 1 \/ mo > 12 \/ d < 1 \/ d > DaysInMonth(y, mo)
               \/ h > 23 \/ mi > 59 \/ sc > 59
            THEN InvalidDate
            ELSE DateOf(DaysFromCivil(y, mo, d) * MsPerDay
                        + h * 3600000 + mi * 60000 + sc * 1000 + ms)
    IN  IF ~IsISOFormat(s) THEN InvalidDate
        ELSE instant(Num(s, 1, 4), Num(s, 6, 7), Num(s, 9, 10), Num(s, 12, 13),
                     Num(s, 15, 16), Num(s, 18, 19), Num(s, 21, 23))

----------------------------------------------------------------------------
(* Task and TaskModel                                                      *)

TaskModel(id, text, completed, createdAt) ==
    [id |-> id, text |-> text, completed |-> completed, createdAt |-> createdAt]

\* new TaskModel(id, text): completed and createdAt take their defaults
NewTaskModel(id, text, clock) == TaskModel(id, text, FALSE, DateOf(clock))

TaskFields == {"id", "text", "completed", "createdAt"}

\* a Partial<Task>: the fields in has are present, with the values of val
Partial(has, val) == [has |-> has, val |-> val]

\* { ...task, ...updates }
Spread(task, updates) ==
    [f \in TaskFields |-> IF f \in updates.has THEN updates.val[f] ELSE task[f]]

----------------------------------------------------------------------------
(* JSON values and the item under STORAGE_KEY                              *)

JNull == [t |-> "null", v |-> 0]

JUndefined == [t |-> "undefined", v |-> 0]

JNumber(n) == [t |-> "number", v |-> n]

JString(s) == [t |-> "string", v |-> s]

JBoolean(b) == [t |-> "boolean", v |-> b]

JObject(fields) == [t |-> "object", v |-> fields]

JArray(elems) == [t |-> "array", v |-> elems]

\* getItem returns null: the key is absent
NoItem == [kind |-> "absent", value |-> JNull]

\* the item is the empty string
EmptyItem == [kind |-> "empty", value |-> JNull]

\* the item is a text that is not JSON, kept as its words
GarbageText(words) == [kind |-> "garbage", value |-> JString(words)]

GarbageItem == GarbageText(<<"invalid", "json", "data">>)

\* the item is the JSON text of value
JsonItem(value) == [kind |-> "json", value |-> value]

\* JSON.stringify of a StoredTask[]
JSONStringify(storedTasks) ==
    JsonItem(JArray([i \in 1..Len(storedTasks) |->
        JObject([id        |-> JString(storedTasks[i].id),
                 text      |-> JString(storedTasks[i].text),
                 completed |-> JBoolean(storedTasks[i].completed),
                 createdAt |-> JString(storedTasks[i].createdAt)])]))

\* an error object: whether it is an instance of Error, its name and the
\* words of its message
ErrorObject(isError, name, message) ==
    [isError |-> isError, name |-> name, message |-> message]

NoThrow == ErrorObject(FALSE, "none", <<>>)

\* String.prototype.includes, on the words of a message
Includes(message, word) == \E i \in 1..Len(message) : message[i] = word

\* the SyntaxError of JSON.parse: the message quotes a text this short
\* (Unexpected token 'i', "invalid json data" is not valid JSON)
SyntaxError(words) ==
    ErrorObject(TRUE, "SyntaxError",
                <<"Unexpected", "token">> \o words \o <<"is", "not", "valid", "JSON">>)

\* JSON.parse: a SyntaxError for a text that is not JSON
JSONParse(item) ==
    IF item.kind = "json" THEN [ok |-> TRUE, value |-> item.value, error |-> NoThrow]
    ELSE [ok |-> FALSE, value |-> JNull, error |-> SyntaxError(item.value.v)]

----------------------------------------------------------------------------
(* LocalStorageTaskRepository                                              *)

NoError == <<>>

ADD_FAILED == "Failed to add task"

UPDATE_FAILED == "Failed to update task"

DELETE_FAILED == "Failed to delete task"

TASK_NOT_FOUND == "Task not found"

STORAGE_FAILED == "Failed to save tasks to localStorage"

LOAD_FAILED == "Failed to load tasks from localStorage"

\* what localStorage.getItem / setItem may throw
ReadFaults == {"none", "SecurityError", "AccessError"}

WriteFaults == {"none", "QuotaExceededError"}

\* a DOMException named SecurityError, as a browser throws it when the page
\* may not use localStorage
InsecureOperation == "InsecureOperation"

\* the error getItem throws under a read fault
Thrown(rf) ==
    CASE rf = "SecurityError" ->
             ErrorObject(TRUE, "Error",
                         <<"SecurityError", "LocalStorage", "access", "denied">>)
      [] rf = "AccessError" ->
             ErrorObject(TRUE, "Error", <<"localStorage", "access", "denied">>)
      [] rf = InsecureOperation ->
             ErrorObject(TRUE, "SecurityError", <<"The", "operation", "is", "insecure">>)
      [] OTHER -> NoThrow

\* what names a caught error in the message of the error thrown for it
Tag(rf, error) == IF rf # "none" THEN rf ELSE error.name

NoTask == TaskModel(<<>>, <<>>, FALSE, InvalidDate)

\* serializeTask keeping the creation time to the second
serializeTask_seconds(task) ==
    [id |-> task.id, text |-> task.text, completed |-> task.completed,
     createdAt |-> ToISOString(DateOf((task.createdAt.ms \div 1000) * 1000))]

serializeTask(task) ==
    [id |-> task.id, text |-> task.text, completed |-> task.completed,
     createdAt |-> ToISOString(task.createdAt)]

\* toISOString throws a RangeError on an Invalid Date
serializeThrows(task) == ~task.createdAt.valid

isValidStoredTask(storedTask) ==
    /\ storedTask.t = "object"
    /\ storedTask.v.id.t = "string"
    /\ Len(storedTask.v.id.v) > 0
    /\ storedTask.v.text.t = "string"
    /\ Len(storedTask.v.text.v) > 0
    /\ storedTask.v.completed.t = "boolean"
    /\ storedTask.v.createdAt.t = "string"
    /\ Len(storedTask.v.createdAt.v) > 0

\* ok is FALSE where deserializeTask throws
deserializeTask(storedTask) ==
    LET dated(createdAt) ==
            IF ~createdAt.valid THEN [ok |-> FALSE, task |-> NoTask]
            ELSE [ok |-> TRUE,
                  task |-> TaskModel(storedTask.v.id.v, storedTask.v.text.v,
                                     storedTask.v.completed.v, createdAt)]
    IN  IF ~isValidStoredTask(storedTask) THEN [ok |-> FALSE, task |-> NoTask]
        ELSE dated(ParseDate(storedTask.v.createdAt.v))

isValidTask(task) ==
    /\ Len(task.id) > 0
    /\ Len(task.text) > 0
    /\ task.completed \in BOOLEAN
    /\ task.createdAt.valid

\* the per-element loop keeping every record that has the fields of a task
RECURSIVE validTasksOf_unchecked(_)
validTasksOf_unchecked(storedTasks) ==
    IF storedTasks = <<>> THEN <<>>
    ELSE LET e == Head(storedTasks)
         IN  (IF e.t = "object" /\ e.v.id.t = "string" /\ e.v.text.t = "string"
                    /\ e.v.completed.t = "boolean" /\ e.v.createdAt.t = "string"
                THEN <<TaskModel(e.v.id.v, e.v.text.v, e.v.completed.v,
                                 ParseDate(e.v.createdAt.v))>>
                ELSE <<>>)
             \o validTasksOf_unchecked(Tail(storedTasks))

\* the loop giving up the whole array at the first element that does not
\* deserialize
validTasksOf_allOrNothing(storedTasks) ==
    IF \A i \in 1..Len(storedTasks) : deserializeTask(storedTasks[i]).ok
        THEN [i \in 1..Len(storedTasks) |-> deserializeTask(storedTasks[i]).task]
    ELSE <<>>

\* the per-element loop of getTasks over the parsed array
RECURSIVE validTasksOf(_)
validTasksOf(storedTasks) ==
    LET kept(d) == IF d.ok /\ isValidTask(d.task) THEN <<d.task>> ELSE <<>>
    IN  IF storedTasks = <<>> THEN <<>>
        ELSE kept(deserializeTask(Head(storedTasks)))
             \o validTasksOf(Tail(storedTasks))

\* what a getTasks call leaves and returns: the item under the key, the
\* error thrown (NoError: none), the tasks returned, the store accesses made
Loaded(item, err, tasks) ==
    [item |-> item, err |-> err, tasks |-> tasks, io |-> <<"getItem">>]

\* getTasks writing back the tasks it keeps
getTasks_selfHealing(item, rf) ==
    LET kept(tasks) ==
            [item |-> JSONStringify([i \in 1..Len(tasks) |-> serializeTask(tasks[i])]),
             err |-> NoError, tasks |-> tasks, io |-> <<"getItem", "setItem">>]
    IN  IF rf # "none" \/ item.kind # "json" THEN Loaded(item, NoError, <<>>)
        ELSE IF item.value.t # "array" THEN Loaded(item, NoError, <<>>)
        ELSE kept(validTasksOf(item.value.v))

\* getTasks with the store holding item and getItem throwing rf
\* getTasks failing with the load error whatever was thrown
getTasks_rethrowing(item, rf) ==
    LET caught(error) == Loaded(item, <<LOAD_FAILED, Tag(rf, error)>>, <<>>)
        parsed(parsedData) ==
            IF ~parsedData.ok THEN caught(parsedData.error)
            ELSE IF parsedData.value.t # "array" THEN Loaded(item, NoError, <<>>)
            ELSE Loaded(item, NoError, validTasksOf(parsedData.value.v))
    IN  IF rf # "none" THEN caught(Thrown(rf))
        ELSE IF item.kind \in {"absent", "empty"} THEN Loaded(item, NoError, <<>>)
        ELSE parsed(JSONParse(item))

getTasks(item, rf) ==
    LET caught(error) ==
            IF error.isError /\ Includes(error.message, "SecurityError")
                THEN Loaded(item, <<LOAD_FAILED, Tag(rf, error)>>, <<>>)
            ELSE Loaded(item, NoError, <<>>)
        parsed(parsedData) ==
            IF ~parsedData.ok THEN caught(parsedData.error)
            ELSE IF parsedData.value.t # "array" THEN Loaded(item, NoError, <<>>)
            ELSE Loaded(item, NoError, validTasksOf(parsedData.value.v))
    IN  IF rf # "none" THEN caught(Thrown(rf))
        ELSE IF item.kind \in {"absent", "empty"} THEN Loaded(item, NoError, <<>>)
        ELSE parsed(JSONParse(item))

\* saveTasks swallowing what setItem throws
saveTasks_swallow(item, tasks, wf) ==
    IF \E i \in 1..Len(tasks) : ~tasks[i].createdAt.valid
        THEN [err |-> <<STORAGE_FAILED, "Invalid time value">>, item |-> item,
              io |-> <<>>]
    ELSE IF wf # "none" THEN [err |-> NoError, item |-> item, io |-> <<"setItem">>]
    ELSE [err |-> NoError,
          item |-> JSONStringify([i \in 1..Len(tasks) |-> serializeTask(tasks[i])]),
          io |-> <<"setItem">>]

\* saveTasks: the item after the call, the error thrown, the store accesses
saveTasks(item, tasks, wf) ==
    IF \E i \in 1..Len(tasks) : serializeThrows(tasks[i])
        THEN [err |-> <<STORAGE_FAILED, "Invalid time value">>, item |-> item,
              io |-> <<>>]
    ELSE IF wf # "none"
        THEN [err |-> <<STORAGE_FAILED, wf>>, item |-> item, io |-> <<"setItem">>]
    ELSE [err |-> NoError,
          item |-> JSONStringify([i \in 1..Len(tasks) |-> serializeTask(tasks[i])]),
          io |-> <<"setItem">>]

\* the result of a repository call: the item left in the store, the error
\* thrown (NoError: none), the value returned, the store accesses made
Result(item, err, ret, io) == [item |-> item, err |-> err, ret |-> ret, io |-> io]

\* addTask appending the new record to the stored array as it is
addTask_keepStored(item, task, rf, wf) ==
    LET saved(s) ==
            IF s.err # NoError
                THEN Result(item, <<ADD_FAILED>> \o s.err, NoTask,
                            <<"getItem">> \o s.io)
            ELSE Result(JsonItem(JArray((IF item.kind = "json" /\ item.value.t = "array"
                                             THEN item.value.v ELSE <<>>)
                                        \o s.item.value.v)),
                        NoError, task, <<"getItem">> \o s.io)
        loaded(read) ==
            IF read.err # NoError
                THEN Result(item, <<ADD_FAILED>> \o read.err, NoTask, <<"getItem">>)
            ELSE saved(saveTasks(item, <<task>>, wf))
    IN  loaded(getTasks(item, rf))

addTask(item, task, rf, wf) ==
    LET saved(s) ==
            IF s.err # NoError
                THEN Result(item, <<ADD_FAILED>> \o s.err, NoTask,
                            <<"getItem">> \o s.io)
            ELSE Result(s.item, NoError, task, <<"getItem">> \o s.io)
        loaded(read) ==
            IF read.err # NoError
                THEN Result(item, <<ADD_FAILED>> \o read.err, NoTask, <<"getItem">>)
            ELSE saved(saveTasks(item, Append(read.tasks, task), wf))
    IN  loaded(getTasks(item, rf))

\* findIndex: 0 stands for -1
findIndex(tasks, id) ==
    IF \E i \in 1..Len(tasks) : tasks[i].id = id
        THEN CHOOSE i \in 1..Len(tasks) :
                 tasks[i].id = id /\ \A j \in 1..(i - 1) : tasks[j].id # id
    ELSE 0

\* updateTask leaving the text as it is when the new text is empty
updateTask_keepText(item, id, updates, rf, wf) ==
    LET kept == IF "text" \in updates.has /\ updates.val.text = <<>>
                    THEN Partial(updates.has \ {"text"}, updates.val)
                ELSE updates
        saved(updatedTask, s) ==
            IF s.err # NoError
                THEN Result(item, <<UPDATE_FAILED>> \o s.err, NoTask,
                            <<"getItem">> \o s.io)
            ELSE Result(s.item, NoError, updatedTask, <<"getItem">> \o s.io)
        merged(tasks, taskIndex, updatedTask) ==
            saved(updatedTask,
                  saveTasks(item, [tasks EXCEPT ![taskIndex] = updatedTask], wf))
        found(tasks, taskIndex) ==
            IF taskIndex = 0
                THEN Result(item, <<UPDATE_FAILED, TASK_NOT_FOUND>>, NoTask,
                            <<"getItem">>)
            ELSE merged(tasks, taskIndex, Spread(tasks[taskIndex], kept))
        loaded(read) ==
            IF read.err # NoError
                THEN Result(item, <<UPDATE_FAILED>> \o read.err, NoTask,
                            <<"getItem">>)
            ELSE found(read.tasks, findIndex(read.tasks, id))
    IN  loaded(getTasks(item, rf))

updateTask(item, id, updates, rf, wf) ==
    LET saved(updatedTask, s) ==
            IF s.err # NoError
                THEN Result(item, <<UPDATE_FAILED>> \o s.err, NoTask,
                            <<"getItem">> \o s.io)
            ELSE Result(s.item, NoError, updatedTask, <<"getItem">> \o s.io)
        merged(tasks, taskIndex, updatedTask) ==
            saved(updatedTask,
                  saveTasks(item, [tasks EXCEPT ![taskIndex] = updatedTask], wf))
        found(tasks, taskIndex) ==
            IF taskIndex = 0
                THEN Result(item, <<UPDATE_FAILED, TASK_NOT_FOUND>>, NoTask,
                            <<"getItem">>)
            ELSE merged(tasks, taskIndex, Spread(tasks[taskIndex], updates))
        loaded(read) ==
            IF read.err # NoError
                THEN Result(item, <<UPDATE_FAILED>> \o read.err, NoTask,
                            <<"getItem">>)
            ELSE found(read.tasks, findIndex(read.tasks, id))
    IN  loaded(getTasks(item, rf))

\* deleteTask writing the filtered list back whether or not a task was removed
deleteTask_alwaysSave(item, id, rf, wf) ==
    LET saved(removed, s) ==
            IF s.err # NoError
                THEN Result(item, <<DELETE_FAILED>> \o s.err, NoTask,
                            <<"getItem">> \o s.io)
            ELSE IF ~removed
                THEN Result(s.item, <<DELETE_FAILED, TASK_NOT_FOUND>>, NoTask,
                            <<"getItem">> \o s.io)
            ELSE Result(s.item, NoError, NoTask, <<"getItem">> \o s.io)
        filtered(tasks, filteredTasks) ==
            saved(Len(filteredTasks) # Len(tasks), saveTasks(item, filteredTasks, wf))
        loaded(read) ==
            IF read.err # NoError
                THEN Result(item, <<DELETE_FAILED>> \o read.err, NoTask,
                            <<"getItem">>)
            ELSE filtered(read.tasks,
                          SelectSeq(read.tasks, LAMBDA task : task.id # id))
    IN  loaded(getTasks(item, rf))

\* deleteTask removing the first task with the id and no other
deleteTask_firstOnly(item, id, rf, wf) ==
    LET saved(s) ==
            IF s.err # NoError
                THEN Result(item, <<DELETE_FAILED>> \o s.err, NoTask,
                            <<"getItem">> \o s.io)
            ELSE Result(s.item, NoError, NoTask, <<"getItem">> \o s.io)
        found(tasks, taskIndex) ==
            IF taskIndex = 0
                THEN Result(item, <<DELETE_FAILED, TASK_NOT_FOUND>>, NoTask,
                            <<"getItem">>)
            ELSE saved(saveTasks(item,
                                 SubSeq(tasks, 1, taskIndex - 1)
                                     \o SubSeq(tasks, taskIndex + 1, Len(tasks)),
                                 wf))
        loaded(read) ==
            IF read.err # NoError
                THEN Result(item, <<DELETE_FAILED>> \o read.err, NoTask,
                            <<"getItem">>)
            ELSE found(read.tasks, findIndex(read.tasks, id))
    IN  loaded(getTasks(item, rf))

deleteTask(item, id, rf, wf) ==
    LET saved(s) ==
            IF s.err # NoError
                THEN Result(item, <<DELETE_FAILED>> \o s.err, NoTask,
                            <<"getItem">> \o s.io)
            ELSE Result(s.item, NoError, NoTask, <<"getItem">> \o s.io)
        filtered(tasks, filteredTasks) ==
            IF Len(filteredTasks) = Len(tasks)
                THEN Result(item, <<DELETE_FAILED, TASK_NOT_FOUND>>, NoTask,
                            <<"getItem">>)
            ELSE saved(saveTasks(item, filteredTasks, wf))
        loaded(read) ==
            IF read.err # NoError
                THEN Result(item, <<DELETE_FAILED>> \o read.err, NoTask,
                            <<"getItem">>)
            ELSE filtered(read.tasks,
                          SelectSeq(read.tasks, LAMBDA task : task.id # id))
    IN  loaded(getTasks(item, rf))

----------------------------------------------------------------------------
(* Identifier generation: task-<timestamp>-<random suffix>                 *)

generateTaskId(clock, suffix) == <<"task", clock, suffix>>

----------------------------------------------------------------------------
(* TaskService                                                             *)

MIN_LENGTH == 1

MAX_LENGTH == 500

\* a text argument: a string, or the null / undefined a caller may pass
StringArg(s) == [kind |-> "string", v |-> s]

NullArg == [kind |-> "null", v |-> <<>>]

UndefinedArg == [kind |-> "undefined", v |-> <<>>]

\* a number passed where a string is expected
NumberArg == [kind |-> "number", v |-> <<>>]

EMPTY_TEXT == "Task text cannot be empty"

TEXT_TOO_LONG == "Task text cannot exceed 500 characters"

ID_REQUIRED == "Task ID is required and must be a string"

\* validateTaskText measuring the trimmed text against the maximum
validateTaskText_trimmedLength(text) ==
    LET trimmedText == IF text.kind = "string" THEN Trim(text.v) ELSE <<>>
    IN  IF Len(trimmedText) < MIN_LENGTH THEN <<EMPTY_TEXT>>
        ELSE IF Len(trimmedText) > MAX_LENGTH THEN <<TEXT_TOO_LONG>>
        ELSE NoError

\* validateTaskText measuring the text as typed for the empty check
validateTaskText_untrimmed(text) ==
    IF Len(text.v) < MIN_LENGTH THEN <<EMPTY_TEXT>>
    ELSE IF Len(text.v) > MAX_LENGTH THEN <<TEXT_TOO_LONG>>
    ELSE NoError

\* validateTaskText: the error it throws, NoError when it returns
validateTaskText(text) ==
    LET trimmedText == IF text.kind = "string" THEN Trim(text.v) ELSE <<>>
    IN  IF Len(trimmedText) < MIN_LENGTH THEN <<EMPTY_TEXT>>
        ELSE IF Len(text.v) > MAX_LENGTH THEN <<TEXT_TOO_LONG>>
        ELSE NoError

\* the result of a service call: a repository Result and the repository
\* methods the call invoked
ServiceResult(r, calls) ==
    [item |-> r.item, err |-> r.err, ret |-> r.ret, io |-> r.io, calls |-> calls]

\* addTask storing the text as typed
Service_addTask_untrimmed(item, text, clock, suffix, rf, wf) ==
    LET invalid == validateTaskText(text)
    IN  IF invalid # NoError
            THEN ServiceResult(Result(item, invalid, NoTask, <<>>), <<>>)
        ELSE LET task == NewTaskModel(generateTaskId(clock, suffix), text.v, clock)
             IN  ServiceResult(addTask(item, task, rf, wf), <<"addTask">>)

Service_addTask(item, text, clock, suffix, rf, wf) ==
    LET invalid == validateTaskText(text)
    IN  IF invalid # NoError
            THEN ServiceResult(Result(item, invalid, NoTask, <<>>), <<>>)
        ELSE LET task == NewTaskModel(generateTaskId(clock, suffix), Trim(text.v),
                                      clock)
             IN  ServiceResult(addTask(item, task, rf, wf), <<"addTask">>)

\* updateTask catching what the repository throws and throwing its own error
Service_updateTask_rewrapped(item, id, updates, rf, wf) ==
    LET wrapped(r) ==
            IF r.err = NoError THEN ServiceResult(r, <<"updateTask">>)
            ELSE ServiceResult(Result(r.item, <<"Could not update the task">>,
                                      r.ret, r.io),
                               <<"updateTask">>)
    IN  wrapped(updateTask(item, id, updates, rf, wf))

Service_updateTask(item, id, updates, rf, wf) ==
    ServiceResult(updateTask(item, id, updates, rf, wf), <<"updateTask">>)

\* deleteTask handing whatever id it is given to the repository
Service_deleteTask_unchecked(item, id, rf, wf) ==
    ServiceResult(deleteTask(item, id.v, rf, wf), <<"deleteTask">>)

\* id is a string argument, or null / undefined / a number
Service_deleteTask(item, id, rf, wf) ==
    IF id.kind # "string" \/ Len(id.v) = 0
        THEN ServiceResult(Result(item, <<ID_REQUIRED>>, NoTask, <<>>), <<>>)
    ELSE ServiceResult(deleteTask(item, id.v, rf, wf), <<"deleteTask">>)

\* toggleTask marking the task completed whatever it was
toggleTask_complete(item, id, rf1, rf2, wf) ==
    LET updated(upd) ==
            ServiceResult(
                Result(upd.item, upd.err, upd.ret, <<"getItem">> \o upd.io),
                <<"getTasks", "updateTask">>)
        found(task) ==
            IF task = NoTask
                THEN ServiceResult(
                         Result(item, <<TASK_NOT_FOUND>>, NoTask, <<"getItem">>),
                         <<"getTasks">>)
            ELSE updated(updateTask(item, id,
                                    Partial({"completed"},
                                            [NoTask EXCEPT !.completed = TRUE]),
                                    rf2, wf))
        find(tasks, index) == found(IF index = 0 THEN NoTask ELSE tasks[index])
        loaded(read) ==
            IF read.err # NoError
                THEN ServiceResult(Result(item, read.err, NoTask, <<"getItem">>),
                                   <<"getTasks">>)
            ELSE find(read.tasks, findIndex(read.tasks, id))
    IN  loaded(getTasks(item, rf1))

\* toggleTask leaving it to updateTask to find the task
toggleTask_noLookup(item, id, rf1, rf2, wf) ==
    LET updated(upd) ==
            ServiceResult(
                Result(upd.item, upd.err, upd.ret, <<"getItem">> \o upd.io),
                <<"getTasks", "updateTask">>)
        found(task) ==
            updated(updateTask(item, id,
                               Partial({"completed"},
                                       [NoTask EXCEPT !.completed = ~task.completed]),
                               rf2, wf))
        find(tasks, index) == found(IF index = 0 THEN NoTask ELSE tasks[index])
        loaded(read) ==
            IF read.err # NoError
                THEN ServiceResult(Result(item, read.err, NoTask, <<"getItem">>),
                                   <<"getTasks">>)
            ELSE find(read.tasks, findIndex(read.tasks, id))
    IN  loaded(getTasks(item, rf1))

\* rf1 is the fault of toggleTask's own read, rf2 that of updateTask's read
toggleTask(item, id, rf1, rf2, wf) ==
    LET updated(upd) ==
            ServiceResult(
                Result(upd.item, upd.err, upd.ret, <<"getItem">> \o upd.io),
                <<"getTasks", "updateTask">>)
        found(task) ==
            IF task = NoTask
                THEN ServiceResult(
                         Result(item, <<TASK_NOT_FOUND>>, NoTask, <<"getItem">>),
                         <<"getTasks">>)
            ELSE updated(updateTask(item, id,
                                    Partial({"completed"},
                                            [NoTask EXCEPT !.completed = ~task.completed]),
                                    rf2, wf))
        find(tasks, index) == found(IF index = 0 THEN NoTask ELSE tasks[index])
        loaded(read) ==
            IF read.err # NoError
                THEN ServiceResult(Result(item, read.err, NoTask, <<"getItem">>),
                                   <<"getTasks">>)
            ELSE find(read.tasks, findIndex(read.tasks, id))
    IN  loaded(getTasks(item, rf1))

Service_getTasks(item, rf) == getTasks(item, rf)

\* a repository constructed over a store that it clears
NewRepository_clearing(item) == JsonItem(JArray(<<>>))

\* new LocalStorageTaskRepository() and new TaskService(repository): the item
\* under the key after the construction; the instances have no field that
\* holds tasks
NewRepository(item) == item

\* getFilteredTasks without the "completed" case
getFilteredTasks_noCompletedCase(item, filter, rf) ==
    LET loaded(read) ==
            IF read.err # NoError THEN read
            ELSE IF filter = "active"
                THEN [read EXCEPT
                         !.tasks = SelectSeq(read.tasks, LAMBDA task : ~task.completed)]
            ELSE read
    IN  loaded(Service_getTasks(item, rf))

\* getFilteredTasks returning nothing for a filter it does not know
getFilteredTasks_strict(item, filter, rf) ==
    LET loaded(read) ==
            IF read.err # NoError THEN read
            ELSE IF filter = "active"
                THEN [read EXCEPT
                         !.tasks = SelectSeq(read.tasks, LAMBDA task : ~task.completed)]
            ELSE IF filter = "completed"
                THEN [read EXCEPT
                         !.tasks = SelectSeq(read.tasks, LAMBDA task : task.completed)]
            ELSE IF filter = "all" THEN read
            ELSE [read EXCEPT !.tasks = <<>>]
    IN  loaded(Service_getTasks(item, rf))

getFilteredTasks(item, filter, rf) ==
    LET loaded(read) ==
            IF read.err # NoError THEN read
            ELSE IF filter = "active"
                THEN [read EXCEPT
                         !.tasks = SelectSeq(read.tasks, LAMBDA task : ~task.completed)]
            ELSE IF filter = "completed"
                THEN [read EXCEPT
                         !.tasks = SelectSeq(read.tasks, LAMBDA task : task.completed)]
            ELSE read
    IN  loaded(Service_getTasks(item, rf))

NoStats == [total |-> 0, completed |-> 0, active |-> 0]

\* the result of getTaskStats over what getTasks returned
StatsResult(read, stats) ==
    [item |-> read.item, err |-> read.err, stats |-> stats, io |-> read.io]

\* getTaskStats counting the active tasks as completed
getTaskStats_active(item, rf) ==
    LET counted(read, total, completed) ==
            StatsResult(read, [total |-> total, completed |-> completed,
                               active |-> total - completed])
        loaded(read) ==
            IF read.err # NoError THEN StatsResult(read, NoStats)
            ELSE counted(read, Len(read.tasks),
                         Len(SelectSeq(read.tasks, LAMBDA task : ~task.completed)))
    IN  loaded(Service_getTasks(item, rf))

getTaskStats(item, rf) ==
    LET counted(read, total, completed) ==
            StatsResult(read, [total |-> total, completed |-> completed,
                               active |-> total - completed])
        loaded(read) ==
            IF read.err # NoError THEN StatsResult(read, NoStats)
            ELSE counted(read, Len(read.tasks),
                         Len(SelectSeq(read.tasks, LAMBDA task : task.completed)))
    IN  loaded(Service_getTasks(item, rf))

----------------------------------------------------------------------------
(* The calls and their inputs                                              *)

\* the elements of the stored array, <<>> when the item is no JSON array
StoredArray(item) ==
    IF item.kind = "json" /\ item.value.t = "array" THEN item.value.v ELSE <<>>

\* the tasks a read without fault returns
Tasks(item) == getTasks(item, "none").tasks

IdsOf(tasks) == {tasks[i].id : i \in 1..Len(tasks)}

\* an id no task was given
MissingId == <<"task", 0, 0>>

\* the faults of one call: of its first read, its second read, its write;
\* at most one access fails
Faults ==
    {f \in ReadFaults \X ReadFaults \X WriteFaults :
        Cardinality({i \in 1..3 : f[i] # "none"}) <= 1}

\* the faults of a call that reads once
Faults1 == {f \in Faults : f[2] = "none"}

NoUpdates == Partial({}, NoTask)

TextUpdate(t) == Partial({"text"}, [NoTask EXCEPT !.text = t])

CompletedUpdate(b) == Partial({"completed"}, [NoTask EXCEPT !.completed = b])

IdUpdate(i) == Partial({"id"}, [NoTask EXCEPT !.id = i])

CreatedAtUpdate(d) == Partial({"createdAt"}, [NoTask EXCEPT !.createdAt = d])

TextCompletedUpdate(t, b) ==
    Partial({"text", "completed"}, [NoTask EXCEPT !.text = t, !.completed = b])

Accessed(r, access) == \E i \in 1..Len(r.io) : r.io[i] = access

\* the record of a call: what was asked, under which faults, what came back;
\* the arguments of a failed update are not kept, nor is the fault of a read
\* or write that the call did not come to
Call(op, text, id, updates, f, r) ==
    [op |-> op, text |-> text, id |-> id,
     updates |-> IF r.err = NoError THEN updates ELSE NoUpdates,
     rf |-> IF ~Accessed(r, "getItem") THEN "none"
            ELSE IF f[1] # "none" THEN f[1]
            ELSE IF Len(SelectSeq(r.io, LAMBDA a : a = "getItem")) > 1 THEN f[2]
            ELSE "none",
     wf |-> IF Accessed(r, "setItem") THEN f[3] ELSE "none",
     err |-> r.err, ret |-> r.ret, io |-> r.io, calls |-> r.calls,
     stats |-> NoStats, tasks |-> <<>>, filter |-> "none"]

NoCall ==
    [op |-> "none", text |-> NullArg, id |-> <<>>, updates |-> NoUpdates,
     rf |-> "none", wf |-> "none", err |-> NoError, ret |-> NoTask, io |-> <<>>,
     calls |-> <<>>, stats |-> NoStats, tasks |-> <<>>, filter |-> "none"]

\* the record of a read: the filter asked for, the read fault, what came back
Read(op, filter, rf, r) ==
    [NoCall EXCEPT !.op = op, !.filter = filter, !.rf = rf, !.err = r.err,
                   !.tasks = r.tasks, !.io = r.io, !.calls = <<"getTasks">>]

\* no repository call waits at an await
NoPending == <<>>

\* the page before a UIController is constructed.  editingTaskId and
\* errorTimeoutId are the controller's fields (<<>> and 0: null); items are
\* the li elements of the task list; focus is the index of the item whose
\* edit input has the focus, 0 when none has; updates are the updateTask
\* calls the last event has issued; errorText / errorShown are the error
\* element's text and display; timers are the pending timeouts, timerCount
\* the number of setTimeout calls made; event is the last event handled;
\* currentFilter is the controller's field; stats are the numbers in the
\* statistics text (0 of 0 in the page as served); empty is the display of
\* the empty-state element
NoView ==
    [editingTaskId |-> <<>>, items |-> <<>>, focus |-> 0, updates |-> <<>>,
     errorText |-> "", errorShown |-> FALSE, errorTimeoutId |-> 0,
     timers |-> {}, timerCount |-> 0,
     event |-> [name |-> "none", blurOnRemoval |-> FALSE],
     currentFilter |-> "all", stats |-> [total |-> 0, completed |-> 0],
     empty |-> FALSE]

----------------------------------------------------------------------------
(* The application: the presentation layer calls the Task Service          *)

AddTexts ==
    {NullArg, UndefinedArg, StringArg(<<>>), StringArg(<<" ">>),
     StringArg(<<"a">>), StringArg(<<" ", "a", " ">>)}

\* the Partial<Task> arguments the application's calls try
ServiceUpdates == {TextUpdate(<<>>), TextUpdate(<<" ">>), TextUpdate(<<"b">>)}

\* the filters the application's calls try: the FilterType values and a
\* value that is none of them
Filters == {"all", "active", "completed", "bogus"}

\* the caller is between two calls
Idle == last.op = "none"

Init ==
    /\ store = NoItem
    /\ now = ClockStart
    /\ last = NoCall
    /\ pending = NoPending
    /\ ui = NoView

\* time passes between two calls
Tick ==
    /\ Idle
    /\ now < ClockStart + MaxTicks * TickMs
    /\ now' = now + TickMs
    /\ UNCHANGED <<store, last, pending, ui>>

CallAddTask(texts) ==
    \E text \in texts, suffix \in 1..MaxSuffix, f \in Faults1 :
        LET r == Service_addTask(store, text, now, suffix, f[1], f[3])
        IN  /\ Idle
            /\ Len(Tasks(store)) < MaxTasks
            /\ store' = r.item
            /\ last' = Call("addTask", text, <<>>, NoUpdates, f, r)
            /\ UNCHANGED <<now, pending, ui>>

CallUpdateTask ==
    \E id \in IdsOf(Tasks(store)) \cup {MissingId}, f \in Faults1 :
        \E updates \in ServiceUpdates :
            LET r == Service_updateTask(store, id, updates, f[1], f[3])
            IN  /\ Idle
                /\ store' = r.item
                /\ last' = Call("updateTask", NullArg, id, updates, f, r)
                /\ UNCHANGED <<now, pending, ui>>

CallDeleteTask ==
    \E id \in {StringArg(i) : i \in IdsOf(Tasks(store)) \cup {MissingId, <<>>}}
              \cup {NullArg, UndefinedArg, NumberArg},
       f \in Faults1 :
        LET r == Service_deleteTask(store, id, f[1], f[3])
        IN  /\ Idle
            /\ store' = r.item
            /\ last' = Call("deleteTask", id, id.v, NoUpdates, f, r)
            /\ UNCHANGED <<now, pending, ui>>

CallToggleTask ==
    \E id \in IdsOf(Tasks(store)) \cup {MissingId}, f \in Faults :
        LET r == toggleTask(store, id, f[1], f[2], f[3])
        IN  /\ Idle
            /\ store' = r.item
            /\ last' = Call("toggleTask", NullArg, id, NoUpdates, f, r)
            /\ UNCHANGED <<now, pending, ui>>

\* toggleTask(id) again, right after a toggleTask(id) that has returned
CallToggleTaskAgain ==
    \E f \in Faults :
        LET r == toggleTask(store, last.id, f[1], f[2], f[3])
        IN  /\ last.op = "toggleTask"
            /\ last.err = NoError
            /\ store' = r.item
            /\ last' = Call("toggleTask", NullArg, last.id, NoUpdates, f, r)
            /\ UNCHANGED <<now, pending, ui>>

CallGetTaskStats ==
    \E rf \in ReadFaults :
        LET r == getTaskStats(store, rf)
        IN  /\ Idle
            /\ store' = r.item
            /\ last' = [NoCall EXCEPT !.op = "getTaskStats", !.rf = rf,
                                      !.err = r.err, !.stats = r.stats,
                                      !.io = r.io, !.calls = <<"getTasks">>]
            /\ UNCHANGED <<now, pending, ui>>

\* getTasks(), also right after a getTasks() that has just settled
CallGetTasks ==
    \E rf \in ReadFaults :
        LET r == Service_getTasks(store, rf)
        IN  /\ Idle \/ last.op = "getTasks"
            /\ store' = r.item
            /\ last' = Read("getTasks", "none", rf, r)
            /\ UNCHANGED <<now, pending, ui>>

\* the page is loaded again: a repository and a service are constructed over
\* the store, after a getTasks() of the instances before them has returned
Reload ==
    /\ last.op = "getTasks"
    /\ last.rf = "none"
    /\ store' = NewRepository(store)
    /\ last' = [last EXCEPT !.op = "reload", !.io = <<>>, !.calls = <<>>]
    /\ UNCHANGED <<now, pending, ui>>

\* the first getTasks() of the instances just constructed
CallGetTasksReloaded ==
    \E rf \in ReadFaults :
        LET r == Service_getTasks(store, rf)
        IN  /\ last.op = "reload"
            /\ store' = r.item
            /\ last' = [Read("getTasks", "none", rf, r) EXCEPT
                            !.calls = <<"constructor", "getTasks">>]
            /\ UNCHANGED <<now, pending, ui>>

CallGetFilteredTasks ==
    \E filter \in Filters, rf \in ReadFaults :
        LET r == getFilteredTasks(store, filter, rf)
        IN  /\ Idle
            /\ store' = r.item
            /\ last' = Read("getFilteredTasks", filter, rf, r)
            /\ UNCHANGED <<now, pending, ui>>

\* the caller has taken the outcome of the settled call
Settle ==
    /\ ~Idle
    /\ last' = NoCall
    /\ UNCHANGED <<store, now, pending, ui>>

Next ==
    \/ Tick
    \/ Settle
    \/ CallAddTask(AddTexts)
    \/ CallUpdateTask
    \/ CallDeleteTask
    \/ CallToggleTask
    \/ CallToggleTaskAgain
    \/ CallGetTaskStats
    \/ CallGetTasks
    \/ Reload
    \/ CallGetTasksReloaded
    \/ CallGetFilteredTasks

Spec == Init /\ [][Next]_vars

----------------------------------------------------------------------------
(* The Storage Adapter called directly, over a store that may hold         *)
(* anything when the adapter is constructed                                *)

RepoIds == {generateTaskId(ClockStart, n) : n \in 1..2}

RepoDate == DateOf(ClockStart)

\* the tasks handed to add: well-formed ones, and ones with an empty id,
\* an empty text, an Invalid Date
RepoTasks ==
    {TaskModel(i, <<"a">>, FALSE, RepoDate) : i \in RepoIds}
    \cup {TaskModel(<<>>, <<"a">>, FALSE, RepoDate),
          TaskModel(generateTaskId(ClockStart, 1), <<>>, FALSE, RepoDate),
          TaskModel(generateTaskId(ClockStart, 1), <<"a">>, FALSE, InvalidDate)}

\* the Partial<Task> arguments handed to update
RepoUpdates ==
    {TextUpdate(<<>>), TextUpdate(<<"b">>), TextCompletedUpdate(<<"b">>, TRUE),
     CreatedAtUpdate(DateOf(0)), CreatedAtUpdate(InvalidDate)}
    \cup {IdUpdate(i) : i \in RepoIds}

StoredRecord(id, text, completed, createdAt) ==
    JObject([id |-> id, text |-> text, completed |-> completed,
             createdAt |-> createdAt])

\* a well-formed stored record, one without text, one whose createdAt is no
\* timestamp
GoodRecord ==
    StoredRecord(JString(generateTaskId(ClockStart, 1)), JString(<<"a">>),
                 JBoolean(FALSE), JString(ToISOString(RepoDate)))

NoTextRecord == [GoodRecord EXCEPT !.v.text = JUndefined]

BadDateRecord == [GoodRecord EXCEPT !.v.createdAt = JString(<<"x">>)]

\* what the store may hold before the first call
InitItems ==
    {NoItem, EmptyItem, GarbageItem, JsonItem(JNull), JsonItem(JNumber(1)),
     JsonItem(JArray(<<>>)),
     JsonItem(JArray(<<NoTextRecord, GoodRecord, JNull, BadDateRecord>>))}

RepoInit ==
    /\ store \in InitItems
    /\ now = ClockStart
    /\ last = NoCall
    /\ pending = NoPending
    /\ ui = NoView

RepoAddTask ==
    \E task \in RepoTasks, f \in Faults1 :
        LET r == ServiceResult(addTask(store, task, f[1], f[3]), <<>>)
        IN  /\ Idle
            /\ Len(Tasks(store)) < MaxTasks
            /\ store' = r.item
            /\ last' = Call("addTask", NullArg, task.id, NoUpdates, f, r)
            /\ UNCHANGED <<now, pending, ui>>

RepoUpdateTask ==
    \E id \in RepoIds, updates \in RepoUpdates, f \in Faults1 :
        LET r == ServiceResult(updateTask(store, id, updates, f[1], f[3]), <<>>)
        IN  /\ Idle
            /\ store' = r.item
            /\ last' = Call("updateTask", NullArg, id, updates, f, r)
            /\ UNCHANGED <<now, pending, ui>>

RepoDeleteTask ==
    \E id \in RepoIds, f \in Faults1 :
        LET r == ServiceResult(deleteTask(store, id, f[1], f[3]), <<>>)
        IN  /\ Idle
            /\ store' = r.item
            /\ last' = Call("deleteTask", NullArg, id, NoUpdates, f, r)
            /\ UNCHANGED <<now, pending, ui>>

RepoNext ==
    \/ Settle
    \/ RepoAddTask
    \/ RepoUpdateTask
    \/ RepoDeleteTask

SpecRepo == RepoInit /\ [][RepoNext]_vars

----------------------------------------------------------------------------
(* The Storage Adapter and toggleTask over the same store                  *)

\* toggleTask of the service, on the ids the adapter's calls use
RepoToggleTask ==
    \E id \in RepoIds, f \in Faults :
        LET r == toggleTask(store, id, f[1], f[2], f[3])
        IN  /\ Idle
            /\ store' = r.item
            /\ last' = Call("toggleTask", NullArg, id, NoUpdates, f, r)
            /\ UNCHANGED <<now, pending, ui>>

RepoToggleNext ==
    \/ RepoNext
    \/ RepoToggleTask

SpecRepoToggle == RepoInit /\ [][RepoToggleNext]_vars

----------------------------------------------------------------------------
(* addTask over texts around the maximum length                            *)

Blanks == 0..1

\* blanks, then n times the letter a, then blanks
LongTexts ==
    {StringArg(Str(l, " ") \o Str(n, "a") \o Str(r, " ")) :
        l \in Blanks, r \in Blanks,
        n \in {0, 1, MAX_LENGTH - 1, MAX_LENGTH, MAX_LENGTH + 1}}

TextNext ==
    \/ Settle
    \/ CallAddTask(LongTexts)

SpecText == Init /\ [][TextNext]_vars

----------------------------------------------------------------------------
(* Writing a collection and reading it back                                *)

RoundTripInstants == {-1, 0, 999, MsPerDay - 1, MsPerDay, 2147483647}

\* well-formed tasks, and a task with an empty text
RoundTripTasks ==
    {TaskModel(generateTaskId(ClockStart, 1), <<"a">>, c, DateOf(ms)) :
        c \in BOOLEAN, ms \in RoundTripInstants}
    \cup {TaskModel(generateTaskId(ClockStart, 2), <<" ", "b">>, FALSE, DateOf(1)),
          TaskModel(generateTaskId(ClockStart, 2), <<>>, FALSE, DateOf(1))}

RECURSIVE SeqsUpTo(_, _)
SeqsUpTo(S, n) ==
    IF n = 0 THEN {<<>>}
    ELSE LET shorter == SeqsUpTo(S, n - 1)
         IN  shorter \cup {Append(q, x) : q \in shorter, x \in S}

\* the collection to write is in last.tasks
RoundTripInit ==
    /\ store = NoItem
    /\ now = ClockStart
    /\ last \in {[NoCall EXCEPT !.op = "collection", !.tasks = c] :
                    c \in SeqsUpTo(RoundTripTasks, MaxTasks)}
    /\ pending = NoPending
    /\ ui = NoView

\* saveTasks(last.tasks)
WriteCollection ==
    /\ last.op = "collection"
    /\ \E wf \in WriteFaults :
           LET saved == saveTasks(store, last.tasks, wf)
           IN  /\ store' = saved.item
               /\ last' = [last EXCEPT !.op = "saveTasks", !.err = saved.err,
                                       !.io = saved.io,
                                       !.wf = IF saved.io = <<>> THEN "none" ELSE wf]
    /\ UNCHANGED <<now, pending, ui>>

\* getTasks() after the write
ReadCollection ==
    /\ last.op = "saveTasks"
    /\ \E rf \in ReadFaults :
           LET read == getTasks(store, rf)
           IN  last' = [NoCall EXCEPT !.op = "getTasks", !.rf = rf, !.err = read.err,
                                      !.tasks = read.tasks, !.io = <<"getItem">>]
    /\ UNCHANGED <<store, now, pending, ui>>

RoundTripNext ==
    \/ WriteCollection
    \/ ReadCollection

SpecRoundTrip == RoundTripInit /\ [][RoundTripNext]_vars

----------------------------------------------------------------------------
(* getTasks() over whatever the key may hold, getItem throwing or not      *)

\* a second well-formed record, completed, with a text of one blank
OtherRecord ==
    StoredRecord(JString(generateTaskId(ClockStart, 2)), JString(<<" ">>),
                 JBoolean(TRUE), JString(ToISOString(DateOf(0))))

\* a timestamp of the right shape that names no day: month 13
NoSuchDay == [ToISOString(RepoDate) EXCEPT ![6] = "1", ![7] = "3"]

\* array elements: well-formed records, and records and values that fail
\* one of the checks made per element
StoredElements ==
    {GoodRecord, OtherRecord, NoTextRecord, BadDateRecord, JNull, JNumber(1),
     JString(<<"a">>),
     [GoodRecord EXCEPT !.v.id = JString(<<>>)],
     [GoodRecord EXCEPT !.v.id = JNumber(1)],
     [GoodRecord EXCEPT !.v.text = JString(<<>>)],
     [GoodRecord EXCEPT !.v.completed = JString(<<"true">>)],
     [GoodRecord EXCEPT !.v.completed = JUndefined],
     [GoodRecord EXCEPT !.v.createdAt = JString(<<>>)],
     [GoodRecord EXCEPT !.v.createdAt = JNumber(0)],
     [GoodRecord EXCEPT !.v.createdAt = JString(NoSuchDay)]}

\* what the key may hold: nothing, texts that are not JSON (one of them
\* blank, one reading SecurityError), JSON values that are no array, arrays
LoadItems ==
    {NoItem, EmptyItem, GarbageItem, GarbageText(<<" ">>),
     GarbageText(<<"SecurityError">>), JsonItem(JNull), JsonItem(JNumber(1)),
     JsonItem(JBoolean(FALSE)), JsonItem(JString(<<"a">>)), JsonItem(GoodRecord)}
    \cup {JsonItem(JArray(elems)) : elems \in SeqsUpTo(StoredElements, MaxTasks)}

\* what getItem may throw
LoadFaults == ReadFaults \cup {InsecureOperation}

LoadInit ==
    /\ store \in LoadItems
    /\ now = ClockStart
    /\ last = NoCall
    /\ pending = NoPending
    /\ ui = NoView

LoadTasks ==
    \E rf \in LoadFaults :
        LET r == getTasks(store, rf)
        IN  /\ Idle
            /\ store' = r.item
            /\ last' = Read("getTasks", "none", rf, r)
            /\ UNCHANGED <<now, pending, ui>>

LoadNext ==
    \/ Settle
    \/ LoadTasks

SpecLoad == LoadInit /\ [][LoadNext]_vars

----------------------------------------------------------------------------
(* deleteTask(id) over the lists that addTask calls may have stored        *)

\* the tasks stored: two with the same id, one with another
DeleteTasks ==
    {TaskModel(generateTaskId(ClockStart, 1), <<"a">>, FALSE, RepoDate),
     TaskModel(generateTaskId(ClockStart, 1), <<"b">>, FALSE, DateOf(0)),
     TaskModel(generateTaskId(ClockStart, 2), <<"a">>, TRUE, RepoDate)}

\* one task more than the application's calls store, so that two tasks may
\* remain around a deleted one
DeleteInit ==
    /\ store \in {saveTasks(NoItem, c, "none").item :
                     c \in SeqsUpTo(DeleteTasks, MaxTasks + 1)}
    /\ now = ClockStart
    /\ last = NoCall
    /\ pending = NoPending
    /\ ui = NoView

\* deleteTask(id) again, right after a deleteTask(id) that has returned
RepoDeleteTaskAgain ==
    \E f \in Faults1 :
        LET r == ServiceResult(deleteTask(store, last.id, f[1], f[3]), <<>>)
        IN  /\ last.op = "deleteTask"
            /\ last.err = NoError
            /\ store' = r.item
            /\ last' = Call("deleteTask", NullArg, last.id, NoUpdates, f, r)
            /\ UNCHANGED <<now, pending, ui>>

DeleteNext ==
    \/ Settle
    \/ RepoDeleteTask
    \/ RepoDeleteTaskAgain

SpecDelete == DeleteInit /\ [][DeleteNext]_vars

----------------------------------------------------------------------------
(* Calls in flight together: a call runs up to its await, and goes on when *)
(* the promise it awaits has settled and the callers before it have        *)
(* yielded                                                                 *)

Callers == 1..MaxCallers

\* a caller's call: the method and its arguments, where it stands (pc), the
\* item its getTasks() found, the error it ended with
InFlight(pc, op, task, id, updates, read, err) ==
    [pc |-> pc, op |-> op, task |-> task, id |-> id, updates |-> updates,
     read |-> read, err |-> err]

NotCalled == InFlight("none", "none", NoTask, <<>>, NoUpdates, NoItem, NoError)

\* the calls made together: adds, and an update, a delete and a toggle of
\* the first task
AsyncCalls ==
    {InFlight("await", "addTask",
              NewTaskModel(generateTaskId(ClockStart, n), <<"a">>, ClockStart),
              <<>>, NoUpdates, NoItem, NoError) : n \in 1..2}
    \cup {InFlight("await", "updateTask", NoTask, generateTaskId(ClockStart, 1),
                    TextUpdate(<<"b">>), NoItem, NoError),
          InFlight("await", "deleteTask", NoTask, generateTaskId(ClockStart, 1),
                   NoUpdates, NoItem, NoError),
          InFlight("toggle", "toggleTask", NoTask, generateTaskId(ClockStart, 1),
                   NoUpdates, NoItem, NoError)}

AsyncInit ==
    /\ store \in {NoItem,
                  saveTasks(NoItem,
                            <<NewTaskModel(generateTaskId(ClockStart, 1), <<"a">>,
                                           ClockStart)>>,
                            "none").item}
    /\ now = ClockStart
    /\ last = NoCall
    /\ pending = [c \in Callers |-> NotCalled]
    /\ ui = NoView

\* the caller calls the method, which runs getTasks() and waits at its await
AsyncCall(c) ==
    \E call \in AsyncCalls :
        /\ pending[c].pc = "none"
        /\ pending' = [pending EXCEPT ![c] = [call EXCEPT !.read = getTasks(store, "none").item]]
        /\ UNCHANGED <<store, now, last, ui>>

\* toggleTask goes on after its getTasks(): it throws not-found, or calls
\* updateTask, which runs getTasks() and waits at its await
AsyncToggleLookup(c) ==
    LET found(tasks, index) ==
            IF index = 0
                THEN [pending[c] EXCEPT !.pc = "done", !.err = <<TASK_NOT_FOUND>>]
            ELSE [pending[c] EXCEPT
                      !.pc = "await",
                      !.updates = CompletedUpdate(~tasks[index].completed),
                      !.read = getTasks(store, "none").item]
        looked(tasks) == found(tasks, findIndex(tasks, pending[c].id))
    IN  /\ pending[c].pc = "toggle"
        /\ pending' = [pending EXCEPT ![c] = looked(Tasks(pending[c].read))]
        /\ UNCHANGED <<store, now, last, ui>>

\* the method goes on after its getTasks(): it changes the tasks it read and
\* saves them
AsyncResume(c) ==
    LET call == pending[c]
        settled(r) ==
            /\ store' = IF r.err = NoError THEN r.item ELSE store
            /\ pending' = [pending EXCEPT ![c] = [call EXCEPT !.pc = "done",
                                                              !.err = r.err]]
    IN  /\ call.pc = "await"
        /\ settled(CASE call.op = "addTask" ->
                            addTask(call.read, call.task, "none", "none")
                     [] call.op = "deleteTask" ->
                            deleteTask(call.read, call.id, "none", "none")
                     [] OTHER ->
                            updateTask(call.read, call.id, call.updates, "none",
                                       "none"))
        /\ UNCHANGED <<now, last, ui>>

AsyncNext ==
    \E c \in Callers :
        \/ AsyncCall(c)
        \/ AsyncToggleLookup(c)
        \/ AsyncResume(c)

SpecAsync == AsyncInit /\ [][AsyncNext]_vars

----------------------------------------------------------------------------
(* UIController: the error message and its hide timer                      *)

ERROR_MESSAGES ==
    [QUOTA_EXCEEDED |-> "storage is full",
     SAVE_FAILED |-> "saving failed",
     LOAD_FAILED |-> "loading failed",
     UPDATE_FAILED |-> "updating the task failed",
     DELETE_FAILED |-> "deleting the task failed",
     GENERIC_ERROR |-> "the operation failed"]

LOAD_INITIAL_FAILED == "Failed to load initial tasks"

\* message is the context the handler gives; error is what was caught, its
\* message the parts of error.message, or of String(error) when it is no
\* Error
getErrorDisplayMessage(message, error) ==
    IF \/ Includes(error.message, "QuotaExceededError")
       \/ error.isError /\ error.name = "QuotaExceededError"
        THEN ERROR_MESSAGES.QUOTA_EXCEEDED
    ELSE IF Includes(error.message, LOAD_FAILED) \/ message = LOAD_INITIAL_FAILED
        THEN ERROR_MESSAGES.LOAD_FAILED
    ELSE IF Includes(error.message, STORAGE_FAILED) \/ Includes(error.message, ADD_FAILED)
        THEN ERROR_MESSAGES.SAVE_FAILED
    ELSE IF Includes(error.message, UPDATE_FAILED) THEN ERROR_MESSAGES.UPDATE_FAILED
    ELSE IF Includes(error.message, DELETE_FAILED) THEN ERROR_MESSAGES.DELETE_FAILED
    ELSE ERROR_MESSAGES.GENERIC_ERROR

\* showErrorMessage leaving the pending timer to run
showErrorMessage_noClear(u, message, error) ==
    [u EXCEPT !.errorText = getErrorDisplayMessage(message, error),
              !.errorShown = TRUE,
              !.timers = @ \cup {u.timerCount + 1},
              !.errorTimeoutId = u.timerCount + 1,
              !.timerCount = @ + 1]

\* the page has the error element; setTimeout returns 1, 2, ...
showErrorMessage(u, message, error) ==
    [u EXCEPT !.errorText = getErrorDisplayMessage(message, error),
              !.errorShown = TRUE,
              !.timers = (IF u.errorTimeoutId # 0 THEN @ \ {u.errorTimeoutId} ELSE @)
                             \cup {u.timerCount + 1},
              !.errorTimeoutId = u.timerCount + 1,
              !.timerCount = @ + 1]

\* the callback of a timeout
hideErrorMessage(u, timer) ==
    [u EXCEPT !.errorShown = FALSE, !.errorTimeoutId = 0, !.timers = @ \ {timer}]

----------------------------------------------------------------------------
(* UIController: editing a task's text in place                            *)

\* a page: the item under the storage key and the view
Page(item, u) == [item |-> item, ui |-> u]

\* createTaskElement: the li of a task, its text shown, no edit input in it
\* completed is the li's class, checked the state of its checkbox
TaskItem(task) ==
    [id |-> task.id, text |-> task.text, hidden |-> FALSE, inputs |-> <<>>,
     completed |-> task.completed, checked |-> task.completed]

\* createEditInput
EditInput(currentText) == [value |-> currentText]

\* the statistics text: the number of tasks and of completed ones
updateStats(u, tasks) ==
    [u EXCEPT !.stats = [total |-> Len(tasks),
                         completed |-> Len(SelectSeq(tasks, LAMBDA task : task.completed))]]

updateEmptyState(u, isEmpty) == [u EXCEPT !.empty = isEmpty]

\* taskList.innerHTML = "" and an li appended for each task: the edit
\* input, if there is one, goes with its li
addTasksToDOM(u, tasks) ==
    [u EXCEPT !.items = [i \in 1..Len(tasks) |-> TaskItem(tasks[i])], !.focus = 0]

renderTaskList(u, tasks) ==
    updateStats(updateEmptyState(addTasksToDOM(u, tasks), Len(tasks) = 0), tasks)

\* the edit input of the item being edited has the focus
InputHasFocus(u) ==
    /\ u.focus # 0
    /\ u.items[u.focus].inputs # <<>>

\* the input is inserted right after the task's text, focused and selected
enterEditMode(u, i) ==
    [u EXCEPT !.editingTaskId = u.items[i].id,
              !.items[i].hidden = TRUE,
              !.items[i].inputs = <<EditInput(u.items[i].text)>> \o @,
              !.focus = i]

\* handleTaskEdit entering edit mode whatever is being edited
handleTaskEdit_unguarded(u, i) == enterEditMode(u, i)

\* a double click on the text of item i
handleTaskEdit(u, i) ==
    IF u.editingTaskId # <<>> THEN u ELSE enterEditMode(u, i)

\* exitEditMode when removing the input fires no event: the first element
\* with the id is the task's li, the input removed is the first in it
removeEditInput(u) ==
    LET found(i) ==
            IF i = 0 THEN [u EXCEPT !.editingTaskId = <<>>]
            ELSE [u EXCEPT !.items[i].inputs = IF @ = <<>> THEN @ ELSE Tail(@),
                           !.items[i].hidden = FALSE,
                           !.focus = IF @ = i THEN 0 ELSE @,
                           !.editingTaskId = <<>>]
    IN  IF u.editingTaskId = <<>> THEN u
        ELSE found(findIndex(u.items, u.editingTaskId))

\* what saveEditedTask does once updateTask has settled with r, up to its
\* call of exitEditMode
afterUpdate(P, taskId, newText, r) ==
    LET logged == [P.ui EXCEPT !.updates = Append(@, [id |-> taskId,
                                                     text |-> newText,
                                                     err |-> r.err])]
        shown(i) ==
            IF i = 0 THEN logged ELSE [logged EXCEPT !.items[i].text = newText]
    IN  IF r.err = NoError
            THEN Page(r.item, shown(findIndex(logged.items, taskId)))
        ELSE Page(P.item,
                  showErrorMessage(logged, UPDATE_FAILED,
                                   ErrorObject(TRUE, "Error", r.err)))

\* exitEditMode when removing the focused input fires blur on it: the blur
\* handler runs saveEditedTask while the input is still in its li.  With
\* an empty text it cancels, which removes the input; with a text it calls
\* updateTask, which settles after exitEditMode has returned.
blurOnRemoval(P, f) ==
    LET i == P.ui.focus
        updated(removed, taskId, newText) ==
            IF newText = <<>> THEN removed
            ELSE afterUpdate(removed, taskId, newText,
                             Service_updateTask(removed.item, taskId,
                                                TextUpdate(newText), f[1], f[3]))
    IN  updated(Page(P.item, removeEditInput(P.ui)), P.ui.items[i].id,
                Trim(P.ui.items[i].inputs[1].value))

\* fires: removing the focused input fires blur in this browser
exitEditMode(P, fires, f) ==
    IF P.ui.editingTaskId # <<>> /\ fires /\ InputHasFocus(P.ui)
        THEN blurOnRemoval(P, f)
    ELSE Page(P.item, removeEditInput(P.ui))

cancelEdit(P, fires, f) == exitEditMode(P, fires, f)

\* saveEditedTask saving whatever text the input holds
saveEditedTask_unchecked(P, i, fires, f1, f2) ==
    exitEditMode(afterUpdate(P, P.ui.items[i].id, Trim(P.ui.items[i].inputs[1].value),
                             Service_updateTask(P.item, P.ui.items[i].id,
                                                TextUpdate(Trim(P.ui.items[i].inputs[1].value)),
                                                f1[1], f1[3])),
                 fires, f2)

\* saveEditedTask on the edit input of item i; f1 are the faults of its
\* updateTask, f2 those of the updateTask a blur on removal issues
saveEditedTask(P, i, fires, f1, f2) ==
    LET saved(taskId, newText) ==
            IF newText = <<>> THEN cancelEdit(P, fires, f2)
            ELSE exitEditMode(afterUpdate(P, taskId, newText,
                                          Service_updateTask(P.item, taskId,
                                                             TextUpdate(newText),
                                                             f1[1], f1[3])),
                              fires, f2)
    IN  saved(P.ui.items[i].id, Trim(P.ui.items[i].inputs[1].value))

\* the tasks stored when the page is opened
EditTasks ==
    <<NewTaskModel(generateTaskId(ClockStart, 1), <<"a">>, ClockStart),
      NewTaskModel(generateTaskId(ClockStart, 2), <<"c">>, ClockStart)>>

\* what the user types into the edit input
EditValues == {<<>>, <<" ">>, <<"b">>, <<" ", "b">>}

\* whether removing the focused input fires blur on it depends on the
\* browser
RemovalFiresBlur == BOOLEAN

\* the faults of an event's calls, none once the page has shown its errors
EventFaults(u) ==
    IF u.timerCount + 2 <= MaxErrors THEN Faults1 ELSE {<<"none", "none", "none">>}

\* the view when an event's handler starts
Event(u, name, fires) ==
    [u EXCEPT !.updates = <<>>, !.event = [name |-> name, blurOnRemoval |-> fires]]

\* the page is open: loadInitialTasks has rendered the stored tasks
EditInit ==
    /\ store = saveTasks(NoItem, EditTasks, "none").item
    /\ now = ClockStart
    /\ last = NoCall
    /\ pending = NoPending
    /\ ui = renderTaskList(NoView, EditTasks)

\* a double click on a task's text that is shown
EditDblClick ==
    \E i \in 1..Len(ui.items) :
        /\ ~ui.items[i].hidden
        /\ ui' = handleTaskEdit(Event(ui, "dblclick", FALSE), i)
        /\ UNCHANGED <<store, now, last, pending>>

\* the user types in the edit input
EditType ==
    \E value \in EditValues :
        /\ InputHasFocus(ui)
        /\ ui' = [Event(ui, "input", FALSE) EXCEPT
                      !.items[ui.focus].inputs[1].value = value]
        /\ UNCHANGED <<store, now, last, pending>>

\* Escape in the edit input: handleEditKeyDown
EditEscape ==
    \E fires \in RemovalFiresBlur, f \in EventFaults(ui) :
        LET P == cancelEdit(Page(store, Event(ui, "Escape", fires)), fires, f)
        IN  /\ InputHasFocus(ui)
            /\ store' = P.item
            /\ ui' = P.ui
            /\ UNCHANGED <<now, last, pending>>

\* Enter in the edit input: handleEditKeyDown
EditEnter ==
    \E fires \in RemovalFiresBlur, f1 \in EventFaults(ui), f2 \in EventFaults(ui) :
        LET P == saveEditedTask(Page(store, Event(ui, "Enter", fires)), ui.focus,
                                fires, f1, f2)
        IN  /\ InputHasFocus(ui)
            /\ store' = P.item
            /\ ui' = P.ui
            /\ UNCHANGED <<now, last, pending>>

\* the edit input loses the focus: handleEditBlur
EditBlur ==
    \E f \in EventFaults(ui) :
        LET P == saveEditedTask(Page(store, [Event(ui, "blur", FALSE) EXCEPT !.focus = 0]),
                                ui.focus, FALSE, f, f)
        IN  /\ InputHasFocus(ui)
            /\ store' = P.item
            /\ ui' = P.ui
            /\ UNCHANGED <<now, last, pending>>

\* a pending timeout fires
TimerFires ==
    \E timer \in ui.timers :
        /\ ui' = hideErrorMessage(Event(ui, "timeout", FALSE), timer)
        /\ UNCHANGED <<store, now, last, pending>>

EditNext ==
    \/ EditDblClick
    \/ EditType
    \/ EditEscape
    \/ EditEnter
    \/ EditBlur
    \/ TimerFires

SpecEdit == EditInit /\ [][EditNext]_vars

----------------------------------------------------------------------------
(* UIController: the errors its handlers catch                             *)

\* what setItem throws when the quota is exceeded: an Error whose message
\* is the name, as the tests' storage makes it, or the DOMException of a
\* browser, named QuotaExceededError, whose message does not hold the name
QuotaExceeded ==
    {ErrorObject(TRUE, "QuotaExceededError", <<"QuotaExceededError">>),
     ErrorObject(TRUE, "QuotaExceededError",
                 <<"The", "quota", "has", "been", "exceeded">>)}

\* what getItem throws
ReadErrors == {Thrown(rf) : rf \in {"SecurityError", "AccessError", InsecureOperation}}

\* the error thrown for a task that is not stored
NotFound == ErrorObject(TRUE, "Error", <<TASK_NOT_FOUND>>)

\* other values a handler may catch: an Error nothing knows, a string
OtherValues ==
    {ErrorObject(TRUE, "Error", <<"Unknown", "error", "occurred">>),
     ErrorObject(FALSE, "none", <<"String", "error", "message">>)}

\* the text a method of the repository puts before the message it rethrows
Prefix(method) ==
    CASE method = "addTask" -> ADD_FAILED
      [] method = "updateTask" -> UPDATE_FAILED
      [] method = "deleteTask" -> DELETE_FAILED
      [] method = "saveTasks" -> STORAGE_FAILED
      [] method = "getTasks" -> LOAD_FAILED

\* the catch block of a method of the repository: a new Error, named Error,
\* whose message is the text and the message caught
Rethrown(method, error) ==
    ErrorObject(TRUE, "Error",
                <<Prefix(method)>> \o (IF error.isError THEN error.message
                                       ELSE <<"Unknown", "error">>))

\* what reaches the handler when origin is thrown below the methods of
\* chain, the outermost first; NoThrow when getTasks has swallowed it
RECURSIVE Caught(_, _)
Caught(chain, origin) ==
    IF chain = <<>> THEN origin
    ELSE LET rethrow(inner) ==
                 IF inner = NoThrow THEN NoThrow
                 ELSE IF Head(chain) = "getTasks"
                         /\ ~(inner.isError /\ Includes(inner.message, "SecurityError"))
                     THEN NoThrow
                 ELSE Rethrown(Head(chain), inner)
         IN  rethrow(Caught(Tail(chain), origin))

\* the calls that fail and what is thrown in them: a write within add,
\* update, delete; a read within these and within the loading of the
\* page; a task not found; a value the handler catches as it is
ErrorCases ==
    ({<<"addTask", "saveTasks">>, <<"updateTask", "saveTasks">>,
      <<"deleteTask", "saveTasks">>} \X QuotaExceeded)
    \cup ({<<"addTask", "getTasks">>, <<"updateTask", "getTasks">>,
           <<"deleteTask", "getTasks">>, <<"getTasks">>} \X ReadErrors)
    \cup ({<<"updateTask">>, <<"deleteTask">>} \X {NotFound})
    \cup ({<<>>} \X (QuotaExceeded \cup OtherValues \cup {NotFound}))

\* the context the handler of a failed call gives to handleTaskError
Contexts(chain) ==
    IF chain = <<>> THEN {"Failed to save"}
    ELSE CASE Head(chain) = "addTask" -> {"Failed to add task"}
           [] Head(chain) = "updateTask" -> {"Failed to update task", "Failed to toggle task"}
           [] Head(chain) = "deleteTask" -> {"Failed to delete task"}
           [] Head(chain) = "getTasks" -> {LOAD_INITIAL_FAILED, "Failed to refresh task list"}

\* the record of an error shown: the context, what was thrown and where,
\* what was caught, the timers pending when it was caught
Shown(message, chain, origin, error, timers) ==
    [op |-> "showError", message |-> message, chain |-> chain, origin |-> origin,
     error |-> error, timers |-> timers]

\* the page is open and shows no error
ErrorInit ==
    /\ store = NoItem
    /\ now = ClockStart
    /\ last = NoCall
    /\ pending = NoPending
    /\ ui = NoView

\* a handler catches an error: handleTaskError
ShowError ==
    \E case \in ErrorCases :
        \E message \in Contexts(case[1]) :
            LET show(error) ==
                    /\ error # NoThrow
                    /\ ui' = showErrorMessage(Event(ui, "error", FALSE), message, error)
                    /\ last' = Shown(message, case[1], case[2], error, ui.timers)
            IN  /\ ui.timerCount < MaxErrors
                /\ show(Caught(case[1], case[2]))
                /\ UNCHANGED <<store, now, pending>>

ErrorNext ==
    \/ ShowError
    \/ TimerFires

\* a timeout that is pending fires after its delay
SpecError == ErrorInit /\ [][ErrorNext]_vars /\ WF_vars(TimerFires)

----------------------------------------------------------------------------
(* UIController: the task list, the filter and the statistics              *)

\* F applied to the value of v, which is computed once
Apply(F(_), v) == CHOOSE r \in {F(x) : x \in {v}} : TRUE

\* handleTaskError with the error a call of the service has thrown
handleTaskError(u, message, err) ==
    showErrorMessage(u, message, ErrorObject(TRUE, "Error", err))

addTaskToDOM(u, task) == [u EXCEPT !.items = Append(@, TaskItem(task))]

\* the list is cleared while the edit input in it has the focus, in a
\* browser that then fires blur on the input: handleEditBlur runs
\* saveEditedTask on the input that was removed, and its updateTask settles
\* after the list has been filled again.  u is the view with the list
\* filled again.
blurOnClear(P, u, fires) ==
    LET exited(Q) == exitEditMode(Q, FALSE, <<"none", "none", "none">>)
        saved(taskId, newText) ==
            LET updated(r) ==
                    Apply(exited, afterUpdate(Page(P.item, u), taskId, newText, r))
            IN  IF newText = <<>> THEN Page(P.item, [u EXCEPT !.editingTaskId = <<>>])
                ELSE Apply(updated, Service_updateTask(P.item, taskId,
                                                       TextUpdate(newText),
                                                       "none", "none"))
    IN  IF fires /\ InputHasFocus(P.ui)
            THEN saved(P.ui.items[P.ui.focus].id,
                       Trim(P.ui.items[P.ui.focus].inputs[1].value))
        ELSE Page(P.item, u)

\* rs is what getItem throws on the read of the statistics
updateStatsWithAllTasks(P, rs) ==
    LET loaded(read) ==
            IF read.err # NoError
                THEN Page(P.item, handleTaskError(P.ui, "Failed to update stats", read.err))
            ELSE Page(P.item, updateStats(P.ui, read.tasks))
    IN  Apply(loaded, Service_getTasks(P.item, rs))

\* renderFilteredTaskList counting the tasks it lists
renderFilteredTaskList_countingListed(P, tasks, rs, fires) ==
    blurOnClear(P, renderTaskList(P.ui, tasks), fires)

renderFilteredTaskList(P, tasks, rs, fires) ==
    LET counted(Q) == updateStatsWithAllTasks(Q, rs)
    IN  Apply(counted,
              blurOnClear(P, updateEmptyState(addTasksToDOM(P.ui, tasks),
                                              Len(tasks) = 0),
                          fires))

refreshUI(P, rs) ==
    LET shown(Q) == Page(Q.item, updateEmptyState(Q.ui, Len(Q.ui.items) = 0))
    IN  Apply(shown, updateStatsWithAllTasks(P, rs))

\* rl is what getItem throws on the read of the tasks to list
handleFilterChange(P, filter, rl, rs, fires) ==
    LET loaded(read) ==
            IF read.err # NoError
                THEN Page(P.item,
                          handleTaskError([P.ui EXCEPT !.currentFilter = filter],
                                          "Failed to apply filter", read.err))
            ELSE renderFilteredTaskList(
                     Page(P.item, [P.ui EXCEPT !.currentFilter = filter]),
                     read.tasks, rs, fires)
    IN  IF filter \notin {"all", "active", "completed"} THEN P
        ELSE Apply(loaded, getFilteredTasks(P.item, filter, rl))

refreshTaskList(P, rl, rs, fires) ==
    LET loaded(read) ==
            IF read.err # NoError
                THEN Page(P.item,
                          handleTaskError(P.ui, "Failed to refresh task list", read.err))
            ELSE blurOnClear(P, renderTaskList(P.ui, read.tasks), fires)
    IN  IF P.ui.currentFilter # "all"
            THEN handleFilterChange(P, P.ui.currentFilter, rl, rs, fires)
        ELSE Apply(loaded, Service_getTasks(P.item, rl))

loadInitialTasks(P, rl) ==
    LET loaded(read) ==
            IF read.err # NoError
                THEN Page(P.item, handleTaskError(P.ui, LOAD_INITIAL_FAILED, read.err))
            ELSE Page(P.item, renderTaskList(P.ui, read.tasks))
    IN  Apply(loaded, Service_getTasks(P.item, rl))

\* the faults of a handler's accesses: of the reads and the write of its
\* call of the service, of the read of the tasks to list, of the read of
\* the statistics; at most one of them fails
ViewFaults ==
    {f \in ReadFaults \X ReadFaults \X WriteFaults \X ReadFaults \X ReadFaults :
        Cardinality({i \in 1..5 : f[i] # "none"}) <= 1}

\* value is what the new-task input holds
processTaskAddition(P, value, clock, suffix, f) ==
    LET added(r) ==
            IF r.err # NoError
                THEN Page(P.item, handleTaskError(P.ui, "Failed to add task", r.err))
            ELSE refreshUI(Page(r.item, addTaskToDOM(P.ui, r.ret)), f[5])
        validated(text) ==
            IF Len(text) < MIN_LENGTH \/ Len(text) > MAX_LENGTH THEN P
            ELSE Apply(added, Service_addTask(P.item, StringArg(text), clock, suffix,
                                              f[1], f[3]))
    IN  validated(Trim(value))

\* the checkbox of item i has changed
handleTaskToggle(P, i, f) ==
    LET checked == ~P.ui.items[i].checked
        toggled(r) ==
            IF r.err # NoError
                THEN Page(P.item, handleTaskError(P.ui, "Failed to toggle task", r.err))
            ELSE refreshUI(Page(r.item, [P.ui EXCEPT !.items[i].checked = checked,
                                                     !.items[i].completed = checked]),
                           f[5])
    IN  Apply(toggled, toggleTask(P.item, P.ui.items[i].id, f[1], f[2], f[3]))

\* a click on the delete button of item i
handleTaskDelete(P, i, f, fires) ==
    LET deleted(r) ==
            IF r.err # NoError
                THEN Page(P.item, handleTaskError(P.ui, "Failed to delete task", r.err))
            ELSE refreshTaskList(Page(r.item, P.ui), f[4], f[5], fires)
    IN  Apply(deleted,
              Service_deleteTask(P.item, StringArg(P.ui.items[i].id), f[1], f[3]))

\* what the store holds when the page is opened
ViewStores == {NoItem, saveTasks(NoItem, <<EditTasks[1]>>, "none").item}

\* what the user types into the new-task input
ViewTexts == {<<" ">>, <<" ", "d">>}

\* the record of a handler that has settled: the event, the faults of its
\* accesses, whether its input was valid, whether it has shown no error
Handled(name, f, valid, u) ==
    [op |-> name, faults |-> f, valid |-> valid, ok |-> u.timerCount = ui.timerCount]

\* the page is open: loadInitialTasks has settled
ViewInit ==
    \E item \in ViewStores, rl \in ReadFaults :
        /\ store = item
        /\ now = ClockStart
        /\ last = NoCall
        /\ pending = NoPending
        /\ ui = loadInitialTasks(Page(item, NoView), rl).ui

\* the form is submitted, a millisecond or more after the event before
ViewAdd ==
    \E value \in ViewTexts, f \in ViewFaults :
        LET settled(P) ==
                /\ now < ClockStart + MaxTicks
                /\ ui.timerCount < MaxViewErrors
                /\ f[2] = "none"
                /\ f[4] = "none"
                /\ now' = now + 1
                /\ store' = P.item
                /\ ui' = P.ui
                /\ last' = Handled("add", f, Trim(value) # <<>>, P.ui)
                /\ UNCHANGED pending
        IN  settled(processTaskAddition(Page(store, Event(ui, "add", FALSE)), value,
                                      now + 1, 1, f))

ViewToggle ==
    \E i \in 1..Len(ui.items), f \in ViewFaults :
        LET settled(P) ==
                /\ ui.timerCount < MaxViewErrors
                /\ f[4] = "none"
                /\ store' = P.item
                /\ ui' = P.ui
                /\ last' = Handled("toggle", f, TRUE, P.ui)
                /\ UNCHANGED <<now, pending>>
        IN  settled(handleTaskToggle(Page(store, Event(ui, "toggle", FALSE)), i, f))

ViewDelete ==
    \E i \in 1..Len(ui.items), f \in ViewFaults, fires \in RemovalFiresBlur :
        LET settled(P) ==
                /\ ui.timerCount < MaxViewErrors
                /\ f[2] = "none"
                /\ store' = P.item
                /\ ui' = P.ui
                /\ last' = Handled("delete", f, TRUE, P.ui)
                /\ UNCHANGED <<now, pending>>
        IN  settled(handleTaskDelete(Page(store, Event(ui, "delete",
                                                     fires /\ InputHasFocus(ui))),
                                   i, f, fires))

\* a click on a filter button
ViewFilter ==
    \E filter \in {"all", "active", "completed"}, f \in ViewFaults,
       fires \in RemovalFiresBlur :
        LET settled(P) ==
                /\ ui.timerCount < MaxViewErrors
                /\ f[1] = "none"
                /\ f[2] = "none"
                /\ f[3] = "none"
                /\ store' = P.item
                /\ ui' = P.ui
                /\ last' = Handled("filter", f, TRUE, P.ui)
                /\ UNCHANGED <<now, pending>>
        IN  settled(handleFilterChange(Page(store, Event(ui, "filter",
                                                       fires /\ InputHasFocus(ui))),
                                     filter, f[4], f[5], fires))

\* the events of the edit input, the text in it left as it is, and the
\* timeouts: the record of the list's handler that settled before is
\* dropped
ViewDblClick ==
    \E i \in 1..Len(ui.items) :
        /\ ~ui.items[i].hidden
        /\ ui' = handleTaskEdit(Event(ui, "dblclick", FALSE), i)
        /\ last' = NoCall
        /\ UNCHANGED <<store, now, pending>>

ViewEscape ==
    /\ InputHasFocus(ui)
    /\ ui.timerCount < MaxViewErrors
    /\ \E fires \in RemovalFiresBlur, f \in EventFaults(ui) :
        LET settled(P) ==
                /\ store' = P.item
                /\ ui' = P.ui
                /\ last' = NoCall
                /\ UNCHANGED <<now, pending>>
        IN  settled(cancelEdit(Page(store, Event(ui, "Escape", fires)), fires, f))

ViewEnter ==
    /\ InputHasFocus(ui)
    /\ ui.timerCount < MaxViewErrors
    /\ \E fires \in RemovalFiresBlur, f1 \in EventFaults(ui), f2 \in EventFaults(ui) :
        LET settled(P) ==
                /\ store' = P.item
                /\ ui' = P.ui
                /\ last' = NoCall
                /\ UNCHANGED <<now, pending>>
        IN  settled(saveEditedTask(Page(store, Event(ui, "Enter", fires)), ui.focus,
                                 fires, f1, f2))

ViewBlur ==
    /\ InputHasFocus(ui)
    /\ ui.timerCount < MaxViewErrors
    /\ \E f \in EventFaults(ui) :
        LET settled(P) ==
                /\ store' = P.item
                /\ ui' = P.ui
                /\ last' = NoCall
                /\ UNCHANGED <<now, pending>>
        IN  settled(saveEditedTask(Page(store, [Event(ui, "blur", FALSE) EXCEPT !.focus = 0]),
                                 ui.focus, FALSE, f, f))

ViewTimerFires ==
    \E timer \in ui.timers :
        /\ ui' = hideErrorMessage(Event(ui, "timeout", FALSE), timer)
        /\ last' = NoCall
        /\ UNCHANGED <<store, now, pending>>

ViewNext ==
    \/ ViewAdd
    \/ ViewToggle
    \/ ViewDelete
    \/ ViewFilter
    \/ ViewDblClick
    \/ ViewEscape
    \/ ViewEnter
    \/ ViewBlur
    \/ ViewTimerFires

SpecView == ViewInit /\ [][ViewNext]_vars

----------------------------------------------------------------------------
(* Properties                                                              *)

Count(tasks, P(_)) == Cardinality({i \in 1..Len(tasks) : P(tasks[i])})

\* C1: in every reachable state getTaskStats() returns total = the number of
\* tasks getTasks() returns, completed = the number of those with
\* completed = TRUE, and active + completed = total; so does the result of
\* every getTaskStats call made.
C1_StatsMatchTasks ==
    /\ LET s == getTaskStats(store, "none").stats
       IN  /\ s.total = Len(Tasks(store))
           /\ s.completed = Count(Tasks(store), LAMBDA t : t.completed)
           /\ s.active + s.completed = s.total
    /\ (last.op = "getTaskStats" /\ last.err = NoError) =>
           /\ last.stats.total = Len(getTasks(store, last.rf).tasks)
           /\ last.stats.completed =
                  Count(getTasks(store, last.rf).tasks, LAMBDA t : t.completed)
           /\ last.stats.active + last.stats.completed = last.stats.total

\* a getTaskStats call has returned over a collection with a completed and an
\* active task
C1_Witness ==
    /\ last.op = "getTaskStats"
    /\ last.stats.completed = 1
    /\ last.stats.active = 1

C3_UniqueIds ==
    \A i, j \in 1..Len(Tasks(store)) :
        i # j => Tasks(store)[i].id # Tasks(store)[j].id

\* the array saveTasks stores for tasks
StoredForm(tasks) ==
    StoredArray(JSONStringify([i \in 1..Len(tasks) |-> serializeTask(tasks[i])]))

\* C4, as claimed: a successful update(id, partialFields) returns and stores
\* the task with its id and createdAt as they were and with every field
\* absent from partialFields as it was, and leaves every other task as it
\* was, at its position.
C4_UpdateKeepsIdentity ==
    [][(last'.op = "updateTask" /\ last'.err = NoError) =>
          LET pre == getTasks(store, last'.rf).tasks
              k   == findIndex(pre, last'.id)
          IN  /\ last'.ret.id = pre[k].id
              /\ last'.ret.createdAt = pre[k].createdAt
              /\ \A f \in TaskFields \ last'.updates.has : last'.ret[f] = pre[k][f]
              /\ StoredArray(store') = StoredForm([pre EXCEPT ![k] = last'.ret])]_vars

WriteError(op, wf) ==
    <<CASE op = "addTask" -> ADD_FAILED
        [] op = "updateTask" -> UPDATE_FAILED
        [] OTHER -> DELETE_FAILED,
      STORAGE_FAILED, wf>>

\* C6: when setItem throws during add, update or delete, the call fails with
\* the save error wrapping what setItem threw, the item under the key is what
\* it was, and getTasks() returns what it returned before the call.
C6_FailedWriteChangesNothing ==
    [][(last'.op \in {"addTask", "updateTask", "deleteTask"} /\ last'.wf # "none") =>
          /\ last'.err = WriteError(last'.op, last'.wf)
          /\ store' = store
          /\ Tasks(store') = Tasks(store)]_vars

\* an update of a stored task has failed on the write
C6_Witness ==
    /\ last.op = "updateTask"
    /\ last.wf = "QuotaExceededError"
    /\ last.id \in IdsOf(Tasks(store))

\* C7: addTask(text) with a text that is null, undefined, empty or blank
\* fails with the empty-text error, invokes no repository method, accesses
\* the store neither for reading nor for writing, and leaves the item as it
\* was.
C7_EmptyTextRejectedFirst ==
    [][(/\ last'.op = "addTask"
        /\ (last'.text.kind # "string" \/ Trim(last'.text.v) = <<>>)) =>
          /\ last'.err = <<EMPTY_TEXT>>
          /\ last'.calls = <<>>
          /\ last'.io = <<>>
          /\ store' = store]_vars

\* an addTask of a blank text has been rejected over a store holding a task
C7_Witness ==
    /\ last.op = "addTask"
    /\ last.text = StringArg(<<" ">>)
    /\ last.err = <<EMPTY_TEXT>>
    /\ Len(Tasks(store)) = 1

C8_LengthOfUntrimmedText ==
    (/\ last.op = "addTask"
     /\ last.text.kind = "string"
     /\ Trim(last.text.v) # <<>>) =>
        /\ last.err = <<TEXT_TOO_LONG>> <=> Len(last.text.v) > MAX_LENGTH
        /\ Len(last.text.v) <= MAX_LENGTH <=> last.calls = <<"addTask">>
        /\ (Len(last.text.v) <= MAX_LENGTH /\ last.rf = "none" /\ last.wf = "none")
               => last.err = NoError /\ last.ret.text = Trim(last.text.v)

\* a text of MAX_LENGTH + 1 characters whose trimmed form has fewer than
\* MAX_LENGTH has been rejected as too long
C8_Witness ==
    /\ last.op = "addTask"
    /\ last.err = <<TEXT_TOO_LONG>>
    /\ Len(last.text.v) = MAX_LENGTH + 1
    /\ Len(Trim(last.text.v)) = MAX_LENGTH - 1

\* C10: a collection of tasks with valid fields, written by saveTasks and
\* read back by getTasks(), comes back with the same length and order and
\* with every task's id, text, completed and createdAt as written.
C10_RoundTrip ==
    [][(/\ last.op = "saveTasks"
        /\ last.err = NoError
        /\ \A i \in 1..Len(last.tasks) : isValidTask(last.tasks[i])
        /\ last'.op = "getTasks"
        /\ last'.rf = "none") =>
          /\ last'.err = NoError
          /\ Len(last'.tasks) = Len(last.tasks)
          /\ \A i \in 1..Len(last.tasks) :
                 /\ last'.tasks[i].id = last.tasks[i].id
                 /\ last'.tasks[i].text = last.tasks[i].text
                 /\ last'.tasks[i].completed = last.tasks[i].completed
                 /\ last'.tasks[i].createdAt.valid
                 /\ last'.tasks[i].createdAt.ms = last.tasks[i].createdAt.ms]_vars

\* two tasks, one created a millisecond before 1970, the other completed and
\* created at the last millisecond of a day, have been read back
C10_Witness ==
    /\ last.op = "getTasks"
    /\ last.err = NoError
    /\ Len(last.tasks) = 2
    /\ last.tasks[1].createdAt.ms = -1
    /\ last.tasks[2].createdAt.ms = MsPerDay - 1
    /\ last.tasks[2].completed

\* C11: getTasks(), getFilteredTasks(filter) and getTaskStats() leave the
\* item under the key as it was and make no setItem call, and a getTasks()
\* made right after a getTasks(), the store reading normally both times,
\* returns the same sequence.
C11_ReadsNeverWrite ==
    [][/\ last'.op \in {"getTasks", "getFilteredTasks", "getTaskStats"} =>
              /\ store' = store
              /\ ~Accessed(last', "setItem")
       /\ (/\ last.op = "getTasks" /\ last.rf = "none"
           /\ last'.op = "getTasks" /\ last'.rf = "none") =>
              /\ last'.err = last.err
              /\ last'.tasks = last.tasks]_vars

\* a getTasks() has returned one task from a stored array that also holds a
\* record it skips
C11_Witness ==
    /\ last.op = "getTasks"
    /\ last.err = NoError
    /\ Len(last.tasks) = 1
    /\ Len(StoredArray(store)) = 2

\* all is active and completed interleaved: walking all, every task that is
\* not completed is the next of active and every completed one the next of
\* completed, and none of either is left over
RECURSIVE Partitions(_, _, _)
Partitions(all, active, completed) ==
    IF all = <<>> THEN active = <<>> /\ completed = <<>>
    ELSE IF Head(all).completed
        THEN /\ completed # <<>>
             /\ Head(completed) = Head(all)
             /\ Partitions(Tail(all), active, Tail(completed))
    ELSE /\ active # <<>>
         /\ Head(active) = Head(all)
         /\ Partitions(Tail(all), Tail(active), completed)

\* C12: getFilteredTasks("active") returns the tasks of getTasks() that are
\* not completed and getFilteredTasks("completed") those that are, each in
\* the order of getTasks(), and the two results partition that sequence; so
\* does the result of every getFilteredTasks call made.
C12_FiltersPartition ==
    /\ Partitions(Tasks(store),
                  getFilteredTasks(store, "active", "none").tasks,
                  getFilteredTasks(store, "completed", "none").tasks)
    /\ (last.op = "getFilteredTasks" /\ last.err = NoError) =>
           LET all == getTasks(store, last.rf).tasks
           IN  /\ last.filter = "active" =>
                      Partitions(all, last.tasks,
                                 getFilteredTasks(store, "completed", last.rf).tasks)
               /\ last.filter = "completed" =>
                      Partitions(all, getFilteredTasks(store, "active", last.rf).tasks,
                                 last.tasks)

\* getFilteredTasks("completed") has returned the second of two tasks
C12_Witness ==
    /\ last.op = "getFilteredTasks"
    /\ last.filter = "completed"
    /\ Len(Tasks(store)) = 2
    /\ last.tasks = <<Tasks(store)[2]>>

\* C13: getFilteredTasks(f) for f other than "active" and "completed"
\* returns what getTasks() returns, and fails as it fails.
C13_OtherFiltersReturnAll ==
    /\ \A f \in Filters \ {"active", "completed"} :
           getFilteredTasks(store, f, "none").tasks = Tasks(store)
    /\ (last.op = "getFilteredTasks" /\ last.filter \notin {"active", "completed"}) =>
           /\ last.err = Service_getTasks(store, last.rf).err
           /\ last.tasks = Service_getTasks(store, last.rf).tasks

\* getFilteredTasks of a value that is no FilterType has returned an active
\* and a completed task
C13_Witness ==
    /\ last.op = "getFilteredTasks"
    /\ last.filter = "bogus"
    /\ Len(last.tasks) = 2
    /\ last.tasks[1].completed # last.tasks[2].completed

\* the item holds no task list: the key is absent, or its value is the empty
\* string, a text that is not JSON, or JSON that is null, no array or the
\* empty array
NoTaskList(item) ==
    \/ item.kind \in {"absent", "empty", "garbage"}
    \/ item.kind = "json" /\ item.value.t # "array"
    \/ item.kind = "json" /\ item.value.t = "array" /\ item.value.v = <<>>

\* C14, as claimed: getTasks() over an item that holds no task list, getItem
\* not throwing, returns the empty sequence and raises no error.
C14_NoTaskListReadsEmpty ==
    (last.op = "getTasks" /\ last.rf = "none" /\ NoTaskList(store)) =>
        /\ last.err = NoError
        /\ last.tasks = <<>>

\* the element passes the checks made per element: an object whose id and
\* text are non-empty strings, whose completed is a boolean and whose
\* createdAt is a non-empty string that parses to an instant
PassesValidation(e) ==
    /\ e.t = "object"
    /\ e.v.id.t = "string" /\ e.v.id.v # <<>>
    /\ e.v.text.t = "string" /\ e.v.text.v # <<>>
    /\ e.v.completed.t = "boolean"
    /\ e.v.createdAt.t = "string" /\ e.v.createdAt.v # <<>>
    /\ ParseDate(e.v.createdAt.v).valid

\* tasks holds, in order, the task of every element of elems that passes
\* the checks, and nothing else
RECURSIVE KeepsThePassing(_, _)
KeepsThePassing(elems, tasks) ==
    IF elems = <<>> THEN tasks = <<>>
    ELSE IF PassesValidation(Head(elems))
        THEN /\ tasks # <<>>
             /\ Head(tasks).id = Head(elems).v.id.v
             /\ Head(tasks).text = Head(elems).v.text.v
             /\ Head(tasks).completed = Head(elems).v.completed.v
             /\ Head(tasks).createdAt = ParseDate(Head(elems).v.createdAt.v)
             /\ KeepsThePassing(Tail(elems), Tail(tasks))
    ELSE KeepsThePassing(Tail(elems), tasks)

SecurityCondition(rf) ==
    Thrown(rf).name = "SecurityError" \/ Includes(Thrown(rf).message, "SecurityError")

\* C16, as claimed: when getItem throws, getTasks() fails with the load
\* error if what is thrown tells a security condition, and returns the
\* empty sequence otherwise.
C16_SecurityFailurePropagates ==
    (last.op = "getTasks" /\ last.rf # "none") =>
        IF SecurityCondition(last.rf)
            THEN last.err = <<LOAD_FAILED, last.rf>>
        ELSE last.err = NoError /\ last.tasks = <<>>

\* C17: a toggleTask(id) that returns has stored and returned the first task
\* with that id with completed negated and id, text and createdAt as they
\* were, every other task read as before; a second toggleTask(id) made right
\* after it returns the task as it was before the first.
C17_ToggleNegates ==
    [][(last'.op = "toggleTask" /\ last'.err = NoError) =>
          LET pre == Tasks(store)
              k == findIndex(pre, last'.id)
          IN  /\ k # 0
              /\ last'.ret = [pre[k] EXCEPT !.completed = ~pre[k].completed]
              /\ Tasks(store') = [pre EXCEPT ![k] = last'.ret]
              /\ (last.op = "toggleTask" /\ last.err = NoError) =>
                     /\ last'.id = last.id
                     /\ last'.ret = [last.ret EXCEPT !.completed = ~last.ret.completed]
                     /\ pre[k] = last.ret]_vars

\* a task has been toggled and toggled back, with another task stored
C17_Witness ==
    /\ last.op = "toggleTask"
    /\ last.err = NoError
    /\ last.ret.completed = FALSE
    /\ Len(Tasks(store)) = 2
    /\ \E i \in 1..2 : Tasks(store)[i].id # last.id

\* C18: toggleTask(id) for an id that none of the stored tasks has fails
\* with the not-found error, having called getTasks only, and leaves the
\* item under the key as it was, no setItem made (a read that is denied as
\* a security error fails the call with the load error instead).
C18_ToggleMissingFails ==
    [][(/\ last'.op = "toggleTask"
        /\ last'.rf # "SecurityError"
        /\ last'.id \notin IdsOf(Tasks(store))) =>
          /\ last'.err = <<TASK_NOT_FOUND>>
          /\ last'.calls = <<"getTasks">>
          /\ ~Accessed(last', "setItem")
          /\ store' = store]_vars

\* a toggleTask for an id no task has has failed over a store that holds
\* tasks
C18_Witness ==
    /\ last.op = "toggleTask"
    /\ last.id = MissingId
    /\ last.rf = "none"
    /\ last.err = <<TASK_NOT_FOUND>>
    /\ Len(Tasks(store)) = MaxTasks

\* C19: deleteTask(id) of the service with an id that is the empty string,
\* null, undefined or no string fails with the validation error, no method
\* of the repository called, no getItem and no setItem made.
C19_DeleteNeedsId ==
    (/\ last.op = "deleteTask"
     /\ last.text.kind # "string" \/ last.text.v = <<>>) =>
        /\ last.err = <<ID_REQUIRED>>
        /\ last.calls = <<>>
        /\ last.io = <<>>

\* a deleteTask given a number has failed over a store that holds a task
C19_Witness ==
    /\ last.op = "deleteTask"
    /\ last.text = NumberArg
    /\ last.err = <<ID_REQUIRED>>
    /\ Tasks(store) # <<>>

\* C20: a deleteTask(id) that returns has removed the tasks with that id and
\* nothing else: the tasks stored afterwards are the tasks stored before
\* without those with that id, as they were and in their order; a further
\* deleteTask(id) made right after it fails with the not-found error and
\* leaves the item as it is.
C20_DeleteRemovesOnlyThat ==
    [][/\ (last'.op = "deleteTask" /\ last'.err = NoError) =>
              LET pre == Tasks(store)
              IN  /\ last'.id \in IdsOf(pre)
                  /\ Tasks(store') = SelectSeq(pre, LAMBDA task : task.id # last'.id)
                  /\ \A i \in 1..Len(StoredArray(store')) :
                         deserializeTask(StoredArray(store')[i]).ok
       /\ (/\ last.op = "deleteTask" /\ last.err = NoError
           /\ last'.op = "deleteTask" /\ last'.id = last.id
           /\ last'.rf # "SecurityError") =>
              /\ last'.err = <<DELETE_FAILED, TASK_NOT_FOUND>>
              /\ store' = store]_vars

\* the second of three stored tasks has been deleted: the first and the
\* third remain, in that order
C20_Witness ==
    /\ last.op = "deleteTask"
    /\ last.err = NoError
    /\ last.id = generateTaskId(ClockStart, 2)
    /\ Len(Tasks(store)) = 2
    /\ Tasks(store)[1].text = <<"a">>
    /\ Tasks(store)[2].text = <<"b">>

\* post holds tasks of pre, each with the id and createdAt it has in pre, in
\* the order they have in pre
RECURSIVE KeepsOrder(_, _)
KeepsOrder(post, pre) ==
    IF post = <<>> THEN TRUE
    ELSE IF pre = <<>> THEN FALSE
    ELSE IF Head(post).id = Head(pre).id /\ Head(post).createdAt = Head(pre).createdAt
        THEN KeepsOrder(Tail(post), Tail(pre))
    ELSE KeepsOrder(post, Tail(pre))

\* C21, as claimed: an addTask that returns leaves the stored tasks followed
\* by the task it returns; every other call leaves stored tasks in the order
\* they had, so that getTasks() lists the tasks in the order of their adds.
C21_AddAppends ==
    [][/\ (last'.op = "addTask" /\ last'.err = NoError) =>
              Tasks(store') = Append(Tasks(store), last'.ret)
       /\ ~(last'.op = "addTask" /\ last'.err = NoError) =>
              KeepsOrder(Tasks(store'), Tasks(store))]_vars

\* the outcomes (NoError: it returns) of the repository method that the
\* call made last, over the item the call found, under the call's faults
RepositoryOutcomes(item, clock, call) ==
    CASE call.op = "addTask" ->
             {addTask(item, NewTaskModel(generateTaskId(clock, n),
                                         Trim(call.text.v), clock),
                      call.rf, call.wf).err : n \in 1..MaxSuffix}
      [] call.op = "updateTask" ->
             {updateTask(item, call.id, u, call.rf, call.wf).err :
                  u \in ServiceUpdates}
      [] call.op = "deleteTask" ->
             {deleteTask(item, call.id, call.rf, call.wf).err}
      [] call.op = "toggleTask" /\ call.calls = <<"getTasks", "updateTask">> ->
             {updateTask(item, call.id, CompletedUpdate(b), call.rf, call.wf).err :
                  b \in BOOLEAN}
      [] OTHER -> {getTasks(item, call.rf).err}

\* C22: whenever a call of the service has called the repository, the call
\* ends as the repository method it called last ends: with the very error
\* that method throws, or returning when it returns; the one error the
\* service raises itself after a repository call that returned is
\* toggleTask's not-found.
C22_ErrorsBubbleUnchanged ==
    [][(last'.op # "none" /\ last'.calls # <<>>) =>
          \/ last'.err \in RepositoryOutcomes(store, now, last')
          \/ /\ last'.op = "toggleTask"
             /\ last'.calls = <<"getTasks">>
             /\ last'.err = <<TASK_NOT_FOUND>>
             /\ RepositoryOutcomes(store, now, last') = {NoError}]_vars

\* a toggleTask has failed with the error of the repository's updateTask
\* whose write the store rejected
C22_Witness ==
    /\ last.op = "toggleTask"
    /\ last.calls = <<"getTasks", "updateTask">>
    /\ last.err = <<UPDATE_FAILED, STORAGE_FAILED, "QuotaExceededError">>

\* C23, as claimed: when an add, update or delete writes, the item under the
\* key is the item that its getTasks() read: no other call has written
\* between the call's read and the call's write.
C23_NoWriteBetweenReadAndWrite ==
    [][\A c \in Callers :
          (/\ pending[c].pc = "await"
           /\ pending'[c].pc = "done"
           /\ pending'[c].err = NoError) => pending[c].read = store]_vars

EditInputsOf(u) ==
    UNION {{<<i, k>> : k \in 1..Len(u.items[i].inputs)} : i \in 1..Len(u.items)}

\* C25: the page never holds more than one edit input, and an edit input is
\* in the task whose id editingTaskId holds; a double click on the text of
\* another task while editingTaskId is set leaves editingTaskId and the
\* elements of the list as they are.
C25_OneTaskInEditMode ==
    [][/\ Cardinality(EditInputsOf(ui')) <= 1
       /\ \A ik \in EditInputsOf(ui') : ui'.items[ik[1]].id = ui'.editingTaskId
       /\ (ui'.event.name = "dblclick" /\ ui.editingTaskId # <<>>) =>
              /\ ui'.editingTaskId = ui.editingTaskId
              /\ ui'.items = ui.items]_vars

\* the second task's text was double-clicked while the first was being
\* edited, its input holding a text typed
C25_Witness ==
    /\ ui.event.name = "dblclick"
    /\ ui.editingTaskId = EditTasks[1].id
    /\ ui.items[1].inputs = <<EditInput(<<"b">>)>>
    /\ ui.items[2].inputs = <<>>
    /\ ~ui.items[2].hidden

\* C26, as claimed: Escape in the edit input leaves no edit input and
\* editingTaskId null, every task's text shown as it was before the edit,
\* the item under the key as it was, and issues no updateTask.
C26_EscapeDiscardsTheEdit ==
    [][ui'.event.name = "Escape" =>
          /\ EditInputsOf(ui') = {}
          /\ ui'.editingTaskId = <<>>
          /\ \A i \in 1..Len(ui.items) :
                 ui'.items[i].text = ui.items[i].text /\ ~ui'.items[i].hidden
          /\ ui'.updates = <<>>
          /\ store' = store]_vars

\* the text that a save of the focused edit input would store
TextToSave(u) == Trim(u.items[u.focus].inputs[1].value)

\* C27: Enter in, or a blur of, an edit input whose text is empty or blank
\* issues no updateTask; it leaves no edit input and editingTaskId null,
\* every task's text shown as it was, and the item under the key as it was.
C27_EmptyEditIsCancelled ==
    [][(ui'.event.name \in {"Enter", "blur"} /\ TextToSave(ui) = <<>>) =>
          /\ ui'.updates = <<>>
          /\ EditInputsOf(ui') = {}
          /\ ui'.editingTaskId = <<>>
          /\ \A i \in 1..Len(ui.items) :
                 ui'.items[i].text = ui.items[i].text /\ ~ui'.items[i].hidden
          /\ store' = store]_vars

\* Enter has been pressed in an edit input holding no text, in a browser
\* that fires blur on the input removed, and nothing was saved
C27_Witness ==
    /\ ui.event = [name |-> "Enter", blurOnRemoval |-> TRUE]
    /\ ui.updates = <<>>
    /\ ui.editingTaskId = <<>>
    /\ Tasks(store) = EditTasks

\* C28, as claimed: Enter in, or a blur of, an edit input whose trimmed
\* text is not empty issues exactly one updateTask, of the edited task with
\* the trimmed text; when it has settled no edit input is left and
\* editingTaskId is null, and the task's text shown is the new text if the
\* update succeeded and the text shown before if it failed.
C28_SaveUpdatesOnce ==
    [][(ui'.event.name \in {"Enter", "blur"} /\ TextToSave(ui) # <<>>) =>
          /\ Len(ui'.updates) = 1
          /\ ui'.updates[1].id = ui.items[ui.focus].id
          /\ ui'.updates[1].text = TextToSave(ui)
          /\ EditInputsOf(ui') = {}
          /\ ui'.editingTaskId = <<>>
          /\ ui'.items[ui.focus].text =
                 IF ui'.updates[1].err = NoError THEN TextToSave(ui)
                 ELSE ui.items[ui.focus].text]_vars

\* C29: when errors are shown one after another, each new one cancels the
\* hide timer of the one before: at most one hide timer is pending, and
\* while a message is shown it is the timer the most recent error started;
\* a message is hidden only by the timer of the most recent error, never by
\* an earlier one; and a message shown is eventually hidden.
C29_OneHideTimer ==
    /\ [](/\ Cardinality(ui.timers) <= 1
          /\ ui.errorShown => ui.timers = {ui.timerCount}
          /\ ui.timers # {} => ui.errorTimeoutId \in ui.timers)
    /\ [][ui.errorShown /\ ~ui'.errorShown
              => ui.timers \ ui'.timers = {ui.timerCount}]_vars
    /\ (ui.errorShown ~> ~ui.errorShown)

\* a second error was shown while the timer of the first was pending, and
\* its timer has fired and hidden the message
C29_Witness ==
    /\ last.op = "showError"
    /\ last.timers # {}
    /\ ui.event.name = "timeout"
    /\ ~ui.errorShown
    /\ ui.timers = {}

\* C30: the message shown for an error is chosen by priority: the
\* storage-full message when the quota was exceeded, also when that error
\* arrives wrapped in the failure of a save or an add; otherwise the
\* load-failed message for a failure to load, then the save-failed message
\* for a failure to save or add, then the messages for a failed update and
\* a failed delete, and the generic message for anything else, values that
\* are no Error included.
C30_MessageByPriority ==
    LET within(method) == Includes(last.chain, method)
        expected ==
            IF last.origin \in QuotaExceeded THEN ERROR_MESSAGES.QUOTA_EXCEEDED
            ELSE IF within("getTasks") \/ last.message = LOAD_INITIAL_FAILED
                THEN ERROR_MESSAGES.LOAD_FAILED
            ELSE IF within("saveTasks") \/ within("addTask")
                THEN ERROR_MESSAGES.SAVE_FAILED
            ELSE IF within("updateTask") THEN ERROR_MESSAGES.UPDATE_FAILED
            ELSE IF within("deleteTask") THEN ERROR_MESSAGES.DELETE_FAILED
            ELSE ERROR_MESSAGES.GENERIC_ERROR
    IN  last.op = "showError" => ui.errorText = expected

\* the handlers of the list: the form's submit, a checkbox's change, a click
\* on a delete button or on a filter button
ListHandlers == {"add", "toggle", "delete", "filter"}

NoViewFaults == <<"none", "none", "none", "none", "none">>

\* the numbers the statistics element shows for the tasks stored in item
StatsOf(item) ==
    [total |-> Len(Tasks(item)),
     completed |-> Len(SelectSeq(Tasks(item), LAMBDA task : task.completed))]

C32_BothAddsAreStored ==
    (\A c \in Callers : /\ pending[c].pc = "done"
                        /\ pending[c].op = "addTask"
                        /\ pending[c].err = NoError)
        => \A c \in Callers : pending[c].task.id \in IdsOf(Tasks(store))

\* C33, as claimed: the completed value a toggleTask(id) writes is the
\* negation of the value stored for the task at the moment of the write,
\* whatever ran between the toggle's read and its write.
C33_ToggleNegatesTheStoredValue ==
    [][\A c \in Callers :
          LET before == Tasks(store)
              after == Tasks(store')
              negated(i, j) ==
                  j # 0 /\ after[j].completed = ~before[i].completed
          IN  (/\ pending[c].op = "toggleTask"
               /\ pending[c].pc = "await"
               /\ pending'[c].pc = "done"
               /\ pending'[c].err = NoError
               /\ findIndex(before, pending[c].id) # 0)
                  => negated(findIndex(before, pending[c].id),
                             findIndex(after, pending[c].id))]_vars

\* the stored array holds a record with this id and an empty text
StoredWithEmptyText(item, id) ==
    \E k \in 1..Len(StoredArray(item)) :
        LET e == StoredArray(item)[k]
        IN  /\ e.t = "object"
            /\ e.v.id = JString(id)
            /\ e.v.text = JString(<<>>)

C35_WritesDropTheInvalid ==
    [][(last.op = "none" /\ last'.op \in {"addTask", "updateTask", "deleteTask"})
          => LET read == getTasks(store, last'.rf).tasks
                 written == StoredArray(store')
                 recordOf(task) == JSONStringify(<<serializeTask(task)>>).value.v[1]
             IN  IF last'.err # NoError THEN store' = store
                 ELSE /\ store'.kind = "json"
                      /\ store'.value.t = "array"
                      /\ Len(written) =
                             CASE last'.op = "addTask" -> Len(read) + 1
                               [] last'.op = "updateTask" -> Len(read)
                               [] OTHER -> Cardinality({i \in 1..Len(read) :
                                                           read[i].id # last'.id})
                      /\ \A k \in 1..Len(written) :
                             \/ \E i \in 1..Len(read) : written[k] = recordOf(read[i])
                             \/ last'.op # "deleteTask" /\ written[k] = recordOf(last'.ret)]_vars

\* an update has succeeded and the store holds one record, that of the
\* updated task: what else was stored, the records getTasks() dropped
\* included, is gone
C35_Witness ==
    /\ last.op = "updateTask"
    /\ last.err = NoError
    /\ last.ret.text = <<"b">>
    /\ Len(StoredArray(store)) = 1
    /\ Len(Tasks(store)) = 1

C37_EditingTaskHasItsInput ==
    ui.editingTaskId # <<>>
        => \E i \in 1..Len(ui.items) :
               /\ ui.items[i].id = ui.editingTaskId
               /\ ui.items[i].inputs # <<>>

\* the tasks the list shows are those getFilteredTasks returns for the
\* filter selected
ListsTheFiltered(u, item) ==
    IdsOf(u.items) = IdsOf(getFilteredTasks(item, u.currentFilter, "none").tasks)

\* C38, as claimed: after an add, toggle, delete or filter-change handler
\* has settled, the tasks the list shows are those getFilteredTasks returns
\* for the filter selected: no completed task under "active", no active
\* task under "completed".  Stated for a handler none of whose accesses to
\* the storage failed, started on a list that showed these tasks.
C38_ListShowsTheFilteredTasks ==
    [][(/\ last'.op \in ListHandlers
        /\ last'.faults = NoViewFaults
        /\ ListsTheFiltered(ui, store))
           => /\ ListsTheFiltered(ui', store')
              /\ ui'.currentFilter = "active"
                     => \A i \in 1..Len(ui'.items) : ~ui'.items[i].completed
              /\ ui'.currentFilter = "completed"
                     => \A i \in 1..Len(ui'.items) : ui'.items[i].completed]_vars

====
